---- MODULE Spec2Model ----
(***************************************************************************)
(* A model of the crates-registry server: the index repository             *)
(* (src/src/index.rs), the HTTP routes (src/src/serve.rs) and the publish  *)
(* pipeline they call.  The publish pipeline itself (crate::publish) is    *)
(* not among the source files; it is modelled from spec.md, sections 4.7,  *)
(* 5 and 6, and every definition taken from there says so.                 *)
(*                                                                         *)
(* Text is a sequence of tokens (one-character or longer strings), so that *)
(* formatting is concatenation and parsing is splitting.  An optional      *)
(* value is a sequence of length 0 or 1.  A directory tree is a function   *)
(* from the paths present to the file contents.                            *)
(***************************************************************************)
EXTENDS Integers, Sequences, FiniteSets, TLC

VARIABLES
    pc,          \* pc[p]: where process p (Main or an HTTP client's request) is
    frame,       \* frame[p]: the arguments and locals of p's add_and_commit call
    work,        \* the working tree of <root>/index: path -> content
    staged,      \* the git staging area (.git/index): path -> content
    commits,     \* the commit objects, in the order they were created
    head,        \* what HEAD resolves to: an index into commits, 0 when unborn
    lock,        \* Index.repository, the tokio Mutex: its holder, if any
    serverInfo,  \* the HEAD that .git/info/refs advertises (update-server-info)
    repoExists,  \* whether <root>/index/.git exists
    addr,        \* the server_addr of the running Index::new
    opens,       \* Index::new calls made so far
    ecNote,      \* what ensure_config found, and the commits there were then
    crateFiles,  \* <root>/crates: path -> bytes
    req,         \* req[c]: the publish body client c is sending
    buffered,    \* buffered[c]: the server holds all of c's request body
    entriesRead, \* entriesRead[c]: the Entries publish_crate decoded
    resp,        \* resp[c]: the HTTP response c received last
    result,      \* result[c]: what publish_crate returned to the route
    okLog,       \* the (name, version) of every publish answered 200, in order
    published,   \* publish requests started so far
    probe,       \* a download request: its <name> and <version> parameters
    routed,      \* the download route's answer to probe
    lastRet,     \* what the add_and_commit that returned last returned
    pending,     \* the paths staged by add_and_commit calls that then failed
    cgi,         \* handle_git: the request, its locals and the two pipes
    child,       \* the git http-backend process handle_git spawned
    sync,        \* a download batch of the rustup mirror
    down,        \* one call of the download engine: attempts, dest.part, dest
    pack,        \* a pack run, its archive, and the registry root it is unpacked into
    eval         \* a pure function of the mirror applied to an input

vars == <<pc, frame, work, staged, commits, head, lock, serverInfo, repoExists,
          addr, opens, ecNote, crateFiles, req, buffered, entriesRead, resp,
          result, okLog, published, probe, routed, lastRet, pending,
          cgi, child, sync, down, pack, eval>>

gitVars == <<staged, commits, head, lock, serverInfo, repoExists>>
clientVars == <<crateFiles, req, buffered, entriesRead, resp, result, okLog,
                published>>
routeVars == <<probe, routed>>
indexVars == <<addr, opens, ecNote>>
commitVars == <<lastRet, pending>>
toolVars == <<down, pack, eval>>
otherVars == <<cgi, child, sync, toolVars>>

-----------------------------------------------------------------------------
(* Bounds *)

NumClients == 2
MaxPublishes == 2
MaxOpens == 2
MaxCalls == 2
PipeCap == 1
MaxGitRequests == 1
MaxBody == 2

Main == 0
Clients == 1..NumClients
Procs == {Main} \cup Clients

None == <<>>
Some(x) == <<x>>

Range(s) == {s[i] : i \in 1..Len(s)}

-----------------------------------------------------------------------------
(* Crate names, versions and the Cargo sharding rule *)

LowerChar(ch) ==
    CASE ch = "A" -> "a"
      [] ch = "B" -> "b"
      [] ch = "F" -> "f"
      [] ch = "S" -> "s"
      [] OTHER -> ch

ToLower(name) == [i \in 1..Len(name) |-> LowerChar(name[i])]

\* crate_path(name): the shard directories of a crate name.
CratePath(name) ==
    LET l == ToLower(name) IN
    CASE Len(l) = 1 -> << <<"1">> >>
      [] Len(l) = 2 -> << <<"2">> >>
      [] Len(l) = 3 -> << <<"3">>, SubSeq(l, 1, 1) >>
      [] OTHER -> << SubSeq(l, 1, 2), SubSeq(l, 3, 4) >>

\* crate_file_name(name, version): "<name>-<version>.crate".
CrateFileName(name, vers) == name \o <<"-">> \o vers \o <<".crate">>

\* Where publish stores the crate file, relative to <root>/crates.
CrateFilePath(name, vers) == Append(CratePath(name), CrateFileName(name, vers))

\* Where publish keeps the crate's entry file, relative to <root>/index.
EntryPath(name) == Append(CratePath(name), ToLower(name))

ConfigPath == << <<"config.json">> >>

Sha256(bytes) == <<"sha256">> \o bytes

-----------------------------------------------------------------------------
(* The index entry codec *)

\* to_string(&entry): one compact JSON line.
ToJson(e) == [ok |-> TRUE, rec |-> e]

\* from_str::<Entry>(line).
FromJson(line) == IF line.ok THEN Some(line.rec) ELSE None

\* SmolSet::insert; up to its inline capacity a SmolSet is a vector without
\* duplicates, kept in insertion order.
Insert(es, e) == IF e \in Range(es) THEN es ELSE Append(es, e)

RECURSIVE InsertAll(_, _)
InsertAll(es, lines) ==
    IF lines = <<>> THEN es
    ELSE InsertAll(Insert(es, FromJson(Head(lines))[1]), Tail(lines))

\* Entries::try_from(String): None when a line is not an Entry.
Decode(lines) ==
    IF \E i \in 1..Len(lines) : FromJson(lines[i]) = None THEN None
    ELSE Some(InsertAll(<<>>, lines))

\* Entries::try_into(String): the records' JSON lines joined by "\n".
EncodeFirstTwice(es) ==
    IF es = <<>> THEN <<>> ELSE <<ToJson(es[1])>> \o [i \in 1..Len(es) |-> ToJson(es[i])]
Encode(es) == [i \in 1..Len(es) |-> ToJson(es[i])]

-----------------------------------------------------------------------------
(* config.json *)

Addrs == { "192.168.0.1:9999", "10.0.0.1:80" }

\* format!("http://{}/api/v1/crates/{{crate}}/{{version}}/download", addr)
DlFor(a) == <<"http://", a, "/api/v1/crates/{crate}/{version}/download">>

\* format!("http://{}", addr)
ApiFor(a) == <<"http://", a>>

\* struct Config { dl, api } as config.json holds it; ok is whether the file
\* parses as a Config at all.
ConfigFile(dl, api) == [ok |-> TRUE, dl |-> dl, api |-> api]

CanonConfig(a) == ConfigFile(DlFor(a), Some(ApiFor(a)))

\* The config.json files a root may hold before the first Index::new: the
\* test's {"dl":"foobar"}, a canonical one for either address, one with the
\* canonical dl and no api, and one that is no JSON.
FoobarConfig == ConfigFile(<<"foobar">>, None)
GarbageConfig == [ok |-> FALSE, dl |-> <<>>, api |-> None]
InitialConfigs ==
    {FoobarConfig, GarbageConfig}
        \cup {CanonConfig(a) : a \in Addrs}
        \cup {ConfigFile(DlFor(a), None) : a \in Addrs}

\* index.rs:318, negated: config.json needs no rewrite.
ConfigUpToDateDlOnly(cfg, a) == cfg.dl = DlFor(a)
ConfigUpToDate(cfg, a) == cfg.dl = DlFor(a) /\ cfg.api = Some(ApiFor(a))

-----------------------------------------------------------------------------
(* The git repository and Index::add_and_commit *)

EmptyTree == <<>>

WriteFile(tree, path, content) == (path :> content) @@ tree

NoFrame == [files |-> <<>>, msg |-> <<>>, tree |-> EmptyTree, parent |-> 0,
            ret |-> "", retErr |-> "", err |-> FALSE]

CallFrame(files, msg, ret, retErr) ==
    [NoFrame EXCEPT !.files = files, !.msg = msg, !.ret = ret, !.retErr = retErr]

\* A call of add_and_commit by p: p continues at ret on Ok, at retErr on Err.
Call(p, files, msg, ret, retErr) ==
    /\ pc' = [pc EXCEPT ![p] = "ac_lock"]
    /\ frame' = [frame EXCEPT ![p] = CallFrame(files, msg, ret, retErr)]

\* self.repository.lock().await completes only while no task holds the guard.
CanLockAlways == TRUE
CanLock == lock = None

InCritical(p) == pc[p] \in {"ac_stage", "ac_commit", "ac_usi"}

\* index.add_path + index.write for each file, in order, up to the first file
\* that is not in the working tree.
StageNothing(idx, files) == idx
StageAllOrNothing(idx, files) ==
    IF \E i \in 1..Len(files) : files[i] \notin DOMAIN work THEN idx
    ELSE [path \in DOMAIN idx \cup Range(files) |->
             IF path \in Range(files) THEN work[path] ELSE idx[path]]
RECURSIVE StageFiles(_, _)
StageFiles(idx, files) ==
    IF files = <<>> \/ Head(files) \notin DOMAIN work THEN idx
    ELSE StageFiles(WriteFile(idx, Head(files), work[Head(files)]), Tail(files))

AllPresent(files) == \A i \in 1..Len(files) : files[i] \in DOMAIN work

\* The paths add_path and index.write() went through before the first error.
RECURSIVE StagedPrefix(_)
StagedPrefix(files) ==
    IF files = <<>> \/ Head(files) \notin DOMAIN work THEN {}
    ELSE {Head(files)} \cup StagedPrefix(Tail(files))

\* repository.commit(Some("HEAD"), .., message, &tree, parents)
CommitWithoutParent(f) == [parent |-> 0, tree |-> f.tree, msg |-> f.msg]
NewCommit(f) == [parent |-> f.parent, tree |-> f.tree, msg |-> f.msg]

\* The guard is dropped when add_and_commit returns, Ok or Err.
Return(p, err) ==
    /\ lock' = None
    /\ pc' = [pc EXCEPT ![p] = IF err THEN frame[p].retErr ELSE frame[p].ret]
    /\ frame' = [frame EXCEPT ![p] = [NoFrame EXCEPT !.err = err]]
    /\ lastRet' = IF err THEN "err" ELSE "ok"

AcLock(p) ==
    /\ pc[p] = "ac_lock"
    /\ CanLock
    /\ lock' = Some(p)
    /\ pc' = [pc EXCEPT ![p] = "ac_stage"]
    /\ UNCHANGED <<frame, work, staged, commits, head, serverInfo, repoExists,
                   indexVars, clientVars, routeVars, commitVars, otherVars>>

\* Lines 209-252: stage the files, write the tree, look up the parent.
AcStage(p) ==
    /\ pc[p] = "ac_stage"
    /\ staged' = StageFiles(staged, frame[p].files)
    /\ IF AllPresent(frame[p].files)
       THEN /\ frame' = [frame EXCEPT ![p].tree = staged', ![p].parent = head]
            /\ pc' = [pc EXCEPT ![p] = "ac_commit"]
            /\ UNCHANGED <<lock, lastRet, pending>>
       ELSE /\ Return(p, TRUE)
            /\ pending' = pending \cup StagedPrefix(frame[p].files)
    /\ UNCHANGED <<work, commits, head, serverInfo, repoExists, indexVars,
                   clientVars, routeVars, otherVars>>

\* Lines 244-263: the commit, on HEAD.
AcCommit(p) ==
    /\ pc[p] = "ac_commit"
    /\ commits' = Append(commits, NewCommit(frame[p]))
    /\ head' = Len(commits')
    /\ pc' = [pc EXCEPT ![p] = "ac_usi"]
    /\ UNCHANGED <<frame, work, staged, lock, serverInfo, repoExists, indexVars,
                   clientVars, routeVars, commitVars, otherVars>>

\* git update-server-info: info/refs advertises what HEAD resolves to.
ServerInfoKept == serverInfo
ServerInfoNow == head

\* Lines 265-266: update_server_info, then Ok(()).
AcUpdateServerInfo(p) ==
    /\ pc[p] = "ac_usi"
    /\ serverInfo' = ServerInfoNow
    /\ Return(p, FALSE)
    /\ UNCHANGED <<work, staged, commits, head, repoExists, pending, indexVars,
                   clientVars, routeVars, otherVars>>

AddAndCommit(p) == AcLock(p) \/ AcStage(p) \/ AcCommit(p) \/ AcUpdateServerInfo(p)

-----------------------------------------------------------------------------
(* Index::new *)

NoPrev == [opened |-> FALSE, addr |-> "", head |-> 0, commits |-> <<>>, config |-> <<>>]

NoNote == [found |-> "none", before |-> 0, prev |-> NoPrev]

\* Lines 173-192: open the repository at root, or create one.
NewOpen ==
    /\ pc[Main] = "new_open"
    /\ repoExists' = TRUE
    /\ IF repoExists
       THEN UNCHANGED <<staged, commits, head, serverInfo>>
       ELSE /\ staged' = EmptyTree
            /\ commits' = <<>>
            /\ head' = 0
            /\ serverInfo' = 0
    /\ lock' = None
    /\ pc' = [pc EXCEPT ![Main] = "ensure_has_commit"]
    /\ UNCHANGED <<frame, work, indexVars, clientVars, routeVars, commitVars, otherVars>>

\* Repository::is_empty(): no commit yet.
IsEmptyAlways == TRUE
IsEmpty == head = 0

\* The guard taken for is_empty() is a temporary of that statement: it is
\* dropped at its end, before add_and_commit is called.
GuardKept == Some(Main)
GuardAfterIsEmpty == None

\* ensure_has_commit
EnsureHasCommit ==
    /\ pc[Main] = "ensure_has_commit"
    /\ CanLock
    /\ lock' = GuardAfterIsEmpty
    /\ IF IsEmpty
       THEN Call(Main, <<>>, <<"Create new repository for cargo registry">>,
                 "ensure_config", "failed")
       ELSE /\ pc' = [pc EXCEPT ![Main] = "ensure_config"]
            /\ UNCHANGED frame
    /\ UNCHANGED <<work, staged, commits, head, serverInfo, repoExists, indexVars,
                   clientVars, routeVars, commitVars, otherVars>>

\* ensure_config
EnsureConfig ==
    /\ pc[Main] = "ensure_config"
    /\ IF ConfigPath \in DOMAIN work
       THEN LET cfg == work[ConfigPath] IN
            IF ~cfg.ok
            THEN /\ pc' = [pc EXCEPT ![Main] = "failed"]
                 /\ ecNote' = [ecNote EXCEPT !.found = "garbage", !.before = Len(commits)]
                 /\ UNCHANGED <<frame, work>>
            ELSE IF ConfigUpToDate(cfg, addr)
            THEN /\ pc' = [pc EXCEPT ![Main] = "update_server_info"]
                 /\ ecNote' = [ecNote EXCEPT !.found = "match", !.before = Len(commits)]
                 /\ UNCHANGED <<frame, work>>
            ELSE /\ work' = WriteFile(work, ConfigPath, CanonConfig(addr))
                 /\ ecNote' = [ecNote EXCEPT !.found = "mismatch", !.before = Len(commits)]
                 /\ Call(Main, <<ConfigPath>>, <<"Update config.json">>,
                         "update_server_info", "failed")
       ELSE /\ work' = WriteFile(work, ConfigPath, CanonConfig(addr))
            /\ ecNote' = [ecNote EXCEPT !.found = "missing", !.before = Len(commits)]
            /\ Call(Main, <<ConfigPath>>, <<"Add initial config.json">>,
                    "update_server_info", "failed")
    /\ UNCHANGED <<gitVars, addr, opens, clientVars, routeVars, commitVars, otherVars>>

\* Line 195: index.update_server_info(), then Ok(index).
NewUpdateServerInfo ==
    /\ pc[Main] = "update_server_info"
    /\ serverInfo' = ServerInfoNow
    /\ pc' = [pc EXCEPT ![Main] = "ready"]
    /\ UNCHANGED <<frame, work, staged, commits, head, lock, repoExists,
                   indexVars, clientVars, routeVars, commitVars, otherVars>>

\* The Index is dropped and Index::new is called on the same root again, as
\* tests::recreate_index does, with the same or another server address.
Reopen ==
    /\ pc[Main] = "ready"
    /\ opens < MaxOpens
    /\ opens' = opens + 1
    /\ addr' \in Addrs
    /\ ecNote' = [NoNote EXCEPT
                      !.prev = [opened |-> TRUE, addr |-> addr, head |-> head,
                                commits |-> commits, config |-> work[ConfigPath]]]
    /\ pc' = [pc EXCEPT ![Main] = "new_open"]
    /\ UNCHANGED <<frame, work, gitVars, clientVars, routeVars, commitVars, otherVars>>

IndexNew == NewOpen \/ EnsureHasCommit \/ EnsureConfig \/ NewUpdateServerInfo

-----------------------------------------------------------------------------
(* HTTP: requests, replies and the routes of serve() *)

Foo == <<"f", "o", "o">>
Serde == <<"s", "e", "r", "d", "e">>

\* A publish body: the metadata JSON and the crate bytes, or (ok = FALSE) a
\* body that does not parse.
Body(n, v, m, d) == [ok |-> TRUE, name |-> n, vers |-> v, meta |-> m, data |-> d]
BadBody == [ok |-> FALSE, name |-> <<>>, vers |-> <<>>, meta |-> <<>>, data |-> <<>>]

\* The bodies clients send: a crate, the same version again with other
\* metadata, the same version with other bytes, another version of the same
\* crate, another crate, and a malformed body.
PublishBodies ==
    { Body(Foo, <<"0.1.0">>, <<"deps:[]">>, <<"hello">>),
      Body(Foo, <<"0.1.0">>, <<"deps:[serde]">>, <<"hello">>),
      Body(Foo, <<"0.1.0">>, <<"deps:[]">>, <<"world">>),
      Body(Foo, <<"0.2.0">>, <<"deps:[]">>, <<"hello">>),
      Body(Serde, <<"1.0.0">>, <<"deps:[]">>, <<"world">>),
      BadBody }

\* Entry::from((metadata, crate bytes))
EntryOf(b) == [name |-> b.name, vers |-> b.vers, cksum |-> Sha256(b.data),
               meta |-> b.meta, yanked |-> FALSE]

NoResp == [status |-> 0, body |-> <<>>, location |-> <<>>]

Ok(val) == [ok |-> TRUE, val |-> val, err |-> <<>>]
Err(chain) == [ok |-> FALSE, val |-> <<>>, err |-> chain]

RECURSIVE JoinComma(_)
JoinComma(parts) ==
    IF parts = <<>> THEN <<>>
    ELSE IF Len(parts) = 1 THEN Head(parts)
    ELSE Head(parts) \o <<",">> \o JoinComma(Tail(parts))

\* RegistryErrors::from(error), serialised: one detail per layer of the chain.
RegistryErrorsJson(chain) ==
    <<"{\"errors\":[">>
        \o JoinComma([i \in 1..Len(chain) |-> <<"{\"detail\":\"", chain[i], "\"}">>])
        \o <<"]}">>

\* response(result): Ok becomes a 200 reply, Err a custom rejection.
Response(res) ==
    IF res.ok
    THEN [rejected |-> FALSE, status |-> 200, body |-> res.val, err |-> <<>>]
    ELSE [rejected |-> TRUE, status |-> 0, body |-> <<>>, err |-> res.err]

\* What the client of warp::serve(routes) receives: routes has no recover
\* filter, so a ServerError rejection is answered by warp itself, with 500.
Served(r) ==
    IF r.rejected
    THEN [status |-> 500,
          body |-> <<"Unhandled rejection: ServerError">> \o r.err,
          location |-> <<>>]
    ELSE [status |-> r.status, body |-> r.body, location |-> <<>>]

RECURSIVE JoinSlash(_)
JoinSlash(components) ==
    IF components = <<>> THEN <<>>
    ELSE IF Len(components) = 1 THEN Head(components)
    ELSE Head(components) \o <<"/">> \o JoinSlash(Tail(components))

RECURSIVE SplitFrom(_, _, _)
SplitFrom(tokens, cur, acc) ==
    LET flushed == IF cur = <<>> THEN acc ELSE Append(acc, cur) IN
    IF tokens = <<>> THEN flushed
    ELSE IF Head(tokens) = "/" THEN SplitFrom(Tail(tokens), <<>>, flushed)
    ELSE SplitFrom(Tail(tokens), Append(cur, Head(tokens)), acc)

\* The segments of a URL path.
SplitSlash(tokens) == SplitFrom(tokens, <<>>, <<>>)

\* warp::redirect(uri) answers 301 Moved Permanently.
RedirectStatus == 301

\* The download route: GET /api/v1/crates/<name>/<version>/download.
DownloadRouteNoVersion(name, vers) ==
    [status |-> RedirectStatus, body |-> <<>>,
     location |-> <<"/", "crates", "/">>
                     \o JoinSlash(Append(CratePath(name), name \o <<".crate">>))]
DownloadRoute(name, vers) ==
    [status |-> RedirectStatus, body |-> <<>>,
     location |-> <<"/", "crates", "/">>
                     \o JoinSlash(Append(CratePath(name), CrateFileName(name, vers)))]

\* The crates route: GET /crates/<path>, warp::fs::dir(<root>/crates).
CratesRouteWholePath(url) ==
    LET segs == SplitSlash(url) IN
    IF segs # <<>> /\ Head(segs) = <<"crates">> /\ segs \in DOMAIN crateFiles
    THEN [status |-> 200, body |-> crateFiles[segs], location |-> <<>>]
    ELSE [status |-> 404, body |-> <<>>, location |-> <<>>]
CratesRoute(url) ==
    LET segs == SplitSlash(url) IN
    IF segs # <<>> /\ Head(segs) = <<"crates">> /\ Tail(segs) \in DOMAIN crateFiles
    THEN [status |-> 200, body |-> crateFiles[Tail(segs)], location |-> <<>>]
    ELSE [status |-> 404, body |-> <<>>, location |-> <<>>]

\* warp::body::bytes(): the publish handler runs once the whole body is in.
BodyBufferedOrNot(c) == TRUE
BodyBuffered(c) == buffered[c]

-----------------------------------------------------------------------------
(* The publish route and publish_crate *)

NoResult == [ok |-> TRUE, val |-> <<"none">>, err |-> <<>>]

Idle(c) == pc[c] \in {"idle", "done", "fetched"}

\* A client opens PUT /api/v1/crates/new and has sent part of the body.
BeginPublish(c) ==
    /\ Idle(c)
    /\ pc[Main] = "ready"
    /\ published < MaxPublishes
    /\ published' = published + 1
    /\ req' \in {[req EXCEPT ![c] = b] : b \in PublishBodies}
    /\ buffered' = [buffered EXCEPT ![c] = FALSE]
    /\ entriesRead' = [entriesRead EXCEPT ![c] = <<>>]
    /\ resp' = [resp EXCEPT ![c] = NoResp]
    /\ result' = [result EXCEPT ![c] = NoResult]
    /\ pc' = [pc EXCEPT ![c] = "sending"]
    /\ UNCHANGED <<frame, work, gitVars, indexVars, crateFiles, okLog, routeVars, commitVars, otherVars>>

\* The rest of the body arrives.
ReceiveBody(c) ==
    /\ pc[c] = "sending"
    /\ ~buffered[c]
    /\ buffered' = [buffered EXCEPT ![c] = TRUE]
    /\ UNCHANGED <<pc, frame, work, gitVars, indexVars, crateFiles, req,
                   entriesRead, resp, result, okLog, published, routeVars, commitVars, otherVars>>

\* publish_crate returns r; the route answers response(r).
Finish(c, r) ==
    /\ pc' = [pc EXCEPT ![c] = "done"]
    /\ result' = [result EXCEPT ![c] = r]
    /\ resp' = [resp EXCEPT ![c] = Served(Response(r))]
    /\ okLog' = IF r.ok THEN Append(okLog, <<req[c].name, req[c].vers>>) ELSE okLog

Continue(c, next) ==
    /\ pc' = [pc EXCEPT ![c] = next]
    /\ UNCHANGED <<result, resp, okLog>>

\* publish_crate, steps 1 to 3: parse the body, hash the crate, store the
\* crate file under <root>/crates.
PublishStore(c) ==
    /\ pc[c] = "sending"
    /\ BodyBuffered(c)
    /\ LET b == req[c]
           path == CrateFilePath(b.name, b.vers) IN
       IF ~b.ok
       THEN /\ Finish(c, Err(<<"failed to parse publish body">>))
            /\ UNCHANGED crateFiles
       ELSE IF path \in DOMAIN crateFiles /\ crateFiles[path] # b.data
       THEN /\ Finish(c, Err(<<"crate file exists with other contents">>))
            /\ UNCHANGED crateFiles
       ELSE /\ crateFiles' = WriteFile(crateFiles, path, b.data)
            /\ Continue(c, "pub_read")
    /\ UNCHANGED <<frame, work, gitVars, indexVars, req, buffered, entriesRead,
                   published, routeVars, commitVars, otherVars>>

\* Step 4, first half: decode the crate's entry file, if there is one.
PublishReadEntries(c) ==
    /\ pc[c] = "pub_read"
    /\ LET path == EntryPath(req[c].name)
           dec == IF path \in DOMAIN work THEN Decode(work[path]) ELSE Some(<<>>) IN
       IF dec = None
       THEN /\ Finish(c, Err(<<"failed to parse index entries">>))
            /\ UNCHANGED entriesRead
       ELSE /\ entriesRead' = [entriesRead EXCEPT ![c] = dec[1]]
            /\ Continue(c, "pub_write")
    /\ UNCHANGED <<frame, work, gitVars, indexVars, crateFiles, req, buffered,
                   published, routeVars, commitVars, otherVars>>

\* A record of this name and version is among the entries.
HasVersionNever(es, name, vers) == FALSE
HasVersion(es, name, vers) ==
    \E i \in 1..Len(es) : es[i].name = name /\ es[i].vers = vers

ConflictError == <<"crate version is already in the index">>

PublishMsg(b) == <<"Publish ">> \o b.name \o <<"-">> \o b.vers

\* Step 4, second half, and step 5: reject a duplicate version, else add the
\* record, write the entry file and commit it.
PublishWriteEntries(c) ==
    /\ pc[c] = "pub_write"
    /\ LET b == req[c]
           path == EntryPath(b.name) IN
       IF HasVersion(entriesRead[c], b.name, b.vers)
       THEN /\ Finish(c, Err(ConflictError))
            /\ UNCHANGED <<work, frame>>
       ELSE /\ work' = WriteFile(work, path, Encode(Insert(entriesRead[c], EntryOf(b))))
            /\ pc' = [pc EXCEPT ![c] = "ac_lock"]
            /\ frame' = [frame EXCEPT
                           ![c] = CallFrame(<<path>>, PublishMsg(b), "pub_ok", "pub_err")]
            /\ UNCHANGED <<result, resp, okLog>>
    /\ UNCHANGED <<gitVars, indexVars, crateFiles, req, buffered, entriesRead,
                   published, routeVars, commitVars, otherVars>>

\* add_and_commit has returned: the route's answer is
\* response(publish_crate(..).map(|()| String::new())).
PublishRespond(c) ==
    /\ pc[c] \in {"pub_ok", "pub_err"}
    /\ Finish(c, IF pc[c] = "pub_ok" THEN Ok(<<>>)
                 ELSE Err(<<"failed to commit the index entry">>))
    /\ frame' = [frame EXCEPT ![c] = NoFrame]
    /\ UNCHANGED <<work, gitVars, indexVars, crateFiles, req, buffered,
                   entriesRead, published, routeVars, commitVars, otherVars>>

PublishOk(c) == pc[c] = "done" /\ result[c].ok

\* After a publish that succeeded the client asks for the crate's download.
Download(c) ==
    /\ PublishOk(c)
    /\ resp' = [resp EXCEPT ![c] = DownloadRoute(req[c].name, req[c].vers)]
    /\ pc' = [pc EXCEPT ![c] = "redirected"]
    /\ UNCHANGED <<frame, work, gitVars, indexVars, crateFiles, req, buffered,
                   entriesRead, result, okLog, published, routeVars, commitVars, otherVars>>

\* ... and follows the redirect.
Fetch(c) ==
    /\ pc[c] = "redirected"
    /\ resp' = [resp EXCEPT ![c] = CratesRoute(resp[c].location)]
    /\ pc' = [pc EXCEPT ![c] = "fetched"]
    /\ UNCHANGED <<frame, work, gitVars, indexVars, crateFiles, req, buffered,
                   entriesRead, result, okLog, published, routeVars, commitVars, otherVars>>

Publish(c) ==
    \/ BeginPublish(c)
    \/ ReceiveBody(c)
    \/ PublishStore(c)
    \/ PublishReadEntries(c)
    \/ PublishWriteEntries(c)
    \/ PublishRespond(c)

-----------------------------------------------------------------------------
(* The server with its clients, from the state serve() is in once Index::new *)
(* has returned on a fresh root.                                             *)

ServingAddr == "192.168.0.1:9999"

ServingTree == WriteFile(EmptyTree, ConfigPath, CanonConfig(ServingAddr))

ServingCommits ==
    << [parent |-> 0, tree |-> EmptyTree,
        msg |-> <<"Create new repository for cargo registry">>],
       [parent |-> 1, tree |-> ServingTree, msg |-> <<"Add initial config.json">>] >>

NoProbe == [name |-> <<>>, vers |-> <<>>]

\* No add_and_commit has failed; the last one, if any, returned Ok.
NoFailure(ret) == lastRet = ret /\ pending = {}

\* No git request yet: the locals of handle_git and its answers.
NoCgi == [pc |-> "none", owner |-> 0, req |-> <<>>, env |-> <<>>, bodyLeft |-> 0,
          headers |-> <<>>, resp |-> <<>>, served |-> <<>>, sent |-> 0,
          lockAtSpawn |-> <<>>, n |-> 0]

\* No child process: its program, its stdin pipe (chunks in it, and whether
\* handle_git still holds the write end) and its stdout pipe.
NoChild == [pc |-> "none", prog |-> <<>>, block |-> <<>>, stdin |-> 0,
            stdinOpen |-> FALSE, stdout |-> <<>>]

\* No sync yet: the locals of the running sync, and the mirror directory with
\* the files on disk, the body of each manifest file on it, and the history
\* file of each channel, now and when the sync was called; the position of
\* the progress bar.
NoSync == [pc |-> "none", kind |-> "none", channel |-> <<>>, threads |-> 0,
           date |-> <<>>, files |-> <<>>, extra |-> <<>>, tasks |-> <<>>,
           results |-> <<>>, ret |-> <<>>, cause |-> "none", disk |-> {},
           history |-> <<>>, before |-> <<>>, toml |-> <<>>, pb |-> 0, n |-> 0]


\* No download yet: the arguments of the call, the attempts made, what the
\* server answered, and the files dest.part and dest.
NoDown == [pc |-> "none", expected |-> <<>>, retries |-> 0, attempts |-> 0,
           answers |-> <<>>, part |-> <<>>, dest |-> <<>>, ret |-> "none", n |-> 0]

\* No pack run yet and an empty registry root: the PackArgs, the platforms
\* resolved, the syncs the run makes, the archive written to pack_file,
\* whether pack_file was created, the result and what failed; the
\* registry root, and of the last unpack its archive, the root before it,
\* its result and the archive of the unpack before it.
NoPack == [pc |-> "none",
           args |-> [platforms |-> <<>>, versions |-> <<>>, threads |-> 0],
           platforms |-> [unix |-> <<>>, windows |-> <<>>],
           listed |-> FALSE, all |-> [unix |-> <<>>, windows |-> <<>>],
           todo |-> <<>>, archive |-> <<>>, created |-> FALSE,
           ret |-> "none", why |-> "none",
           root |-> <<>>, before |-> <<>>, last |-> <<>>, prev |-> <<>>,
           via |-> "none", ctype |-> <<>>, ok |-> TRUE, unpacks |-> 0,
           resp |-> [status |-> 0, body |-> <<>>, location |-> <<>>]]

NoEval ==
    [pc |-> "none", call |-> "none", manifest |-> <<>>, selected |-> <<>>,
     channels |-> {}, files |-> {}, out |-> <<>>,
     input |-> <<>>, text |-> <<>>,
     resp |-> [status |-> 0, body |-> <<>>, location |-> <<>>]]

OthersIdle ==
    /\ cgi = NoCgi /\ child = NoChild /\ sync = NoSync
    /\ down = NoDown /\ pack = NoPack /\ eval = NoEval

ClientsIdle ==
    /\ crateFiles = EmptyTree
    /\ req = [c \in Clients |-> BadBody]
    /\ buffered = [c \in Clients |-> FALSE]
    /\ entriesRead = [c \in Clients |-> <<>>]
    /\ resp = [c \in Clients |-> NoResp]
    /\ result = [c \in Clients |-> NoResult]
    /\ okLog = <<>>
    /\ published = 0

Init ==
    /\ pc = [p \in Procs |-> IF p = Main THEN "ready" ELSE "idle"]
    /\ frame = [p \in Procs |-> NoFrame]
    /\ work = ServingTree
    /\ staged = ServingTree
    /\ commits = ServingCommits
    /\ head = 2
    /\ lock = None
    /\ serverInfo = 2
    /\ repoExists = TRUE
    /\ addr = ServingAddr
    /\ opens = 1
    /\ ecNote = [NoNote EXCEPT !.found = "missing", !.before = 1]
    /\ ClientsIdle
    /\ NoFailure("ok")
    /\ OthersIdle
    /\ probe = NoProbe
    /\ routed = NoResp

Next ==
    \E c \in Clients :
        \/ Publish(c)
        \/ AddAndCommit(c)
        \/ Download(c)
        \/ Fetch(c)

Spec == Init /\ [][Next]_vars

\* Publishes one after the other: a client starts a request only when no
\* other request is in flight.
NextSeq ==
    \E c \in Clients :
        /\ \A d \in Clients \ {c} : Idle(d)
        /\ \/ Publish(c)
           \/ AddAndCommit(c)
           \/ Download(c)
           \/ Fetch(c)

SpecSeq == Init /\ [][NextSeq]_vars

-----------------------------------------------------------------------------
(* Index::new on the roots it may find, and again on the root it left *)

InitIndex ==
    /\ pc = [p \in Procs |-> IF p = Main THEN "new_open" ELSE "idle"]
    /\ frame = [p \in Procs |-> NoFrame]
    /\ work \in {EmptyTree} \cup {WriteFile(EmptyTree, ConfigPath, cfg) : cfg \in InitialConfigs}
    /\ staged = EmptyTree
    /\ commits = <<>>
    /\ head = 0
    /\ lock = None
    /\ serverInfo = 0
    /\ repoExists = FALSE
    /\ addr \in Addrs
    /\ opens = 1
    /\ ecNote = NoNote
    /\ ClientsIdle
    /\ NoFailure("none")
    /\ OthersIdle
    /\ probe = NoProbe
    /\ routed = NoResp

NextIndex == IndexNew \/ AddAndCommit(Main) \/ Reopen

SpecIndex == InitIndex /\ [][NextIndex]_vars

\* Index::new is one task: the runtime polls it whenever it can go on.
SpecIndexFair == SpecIndex /\ WF_vars(IndexNew \/ AddAndCommit(Main))

-----------------------------------------------------------------------------
(* The download route on its own, over names of every shard class *)

ProbeChars == {"a", "S", "-"}

\* Every name of one to four characters, and two longer ones.
ProbeNames ==
    UNION {[1..n -> ProbeChars] : n \in 1..4} \cup {Serde, <<"S", "e", "r", "d", "e">>}

ProbeVersions == { <<"1.0.0">>, <<"0.1.0">> }

InitRoute ==
    /\ pc = [p \in Procs |-> IF p = Main THEN "ready" ELSE "idle"]
    /\ frame = [p \in Procs |-> NoFrame]
    /\ work = ServingTree
    /\ staged = ServingTree
    /\ commits = ServingCommits
    /\ head = 2
    /\ lock = None
    /\ serverInfo = 2
    /\ repoExists = TRUE
    /\ addr = ServingAddr
    /\ opens = 1
    /\ ecNote = [NoNote EXCEPT !.found = "missing", !.before = 1]
    /\ ClientsIdle
    /\ NoFailure("ok")
    /\ OthersIdle
    /\ probe \in [name : ProbeNames, vers : ProbeVersions]
    /\ routed = NoResp

AnswerDownload ==
    /\ routed = NoResp
    /\ routed' = DownloadRoute(probe.name, probe.vers)
    /\ UNCHANGED <<pc, frame, work, gitVars, indexVars, clientVars, probe, commitVars, otherVars>>

NextRoute == AnswerDownload

SpecRoute == InitRoute /\ [][NextRoute]_vars

-----------------------------------------------------------------------------
(* Index::add_and_commit called by concurrent tasks, with git errors *)

CommitPaths == { << <<"a">> >>, << <<"b">> >> }

CommitContents == { <<"v1">> }

\* The files argument: no path, one path, or two different paths.
CommitFileLists ==
    {<<>>} \cup {<<x>> : x \in CommitPaths}
           \cup {fs \in CommitPaths \X CommitPaths : fs[1] # fs[2]}

\* A task writes a file into the working tree of the index.
TouchFile(c) ==
    /\ pc[c] = "idle"
    /\ \E path \in CommitPaths, content \in CommitContents :
         work' = WriteFile(work, path, content)
    /\ UNCHANGED <<pc, frame, gitVars, indexVars, clientVars, routeVars,
                   commitVars, otherVars>>

\* A task calls index.add_and_commit(files, message).
CallAddAndCommit(c) ==
    /\ pc[c] = "idle"
    /\ Len(commits) + Cardinality({p \in Procs : pc[p] # "idle" /\ p # Main}) < MaxCalls + 2
    /\ \E files \in CommitFileLists : Call(c, files, <<"commit">>, "idle", "idle")
    /\ UNCHANGED <<work, gitVars, indexVars, clientVars, routeVars, commitVars,
                   otherVars>>

\* Lines 233-263: write_tree, find_tree, is_empty, refname_to_id, find_commit
\* or commit returns an error; `?` returns it, the guard is dropped.
AcCommitFail(p) ==
    /\ pc[p] = "ac_commit"
    /\ Return(p, TRUE)
    /\ pending' = pending \cup StagedPrefix(frame[p].files)
    /\ UNCHANGED <<work, staged, commits, head, serverInfo, repoExists,
                   indexVars, clientVars, routeVars, otherVars>>

\* Line 265: git update-server-info cannot be run or exits with an error.
AcUpdateServerInfoFail(p) ==
    /\ pc[p] = "ac_usi"
    /\ Return(p, TRUE)
    /\ pending' = pending \cup StagedPrefix(frame[p].files)
    /\ UNCHANGED <<work, staged, commits, head, serverInfo, repoExists,
                   indexVars, clientVars, routeVars, otherVars>>

NextCommit ==
    \E c \in Clients :
        \/ TouchFile(c)
        \/ CallAddAndCommit(c)
        \/ AddAndCommit(c)
        \/ AcCommitFail(c)
        \/ AcUpdateServerInfoFail(c)

SpecCommit == Init /\ [][NextCommit]_vars

-----------------------------------------------------------------------------
(* handle_git: the CGI bridge to git http-backend *)

\* Requests to /git/index/<tail>: what the route's filters extract.
GitReq(tail, method, ctype, remote, query) ==
    [tail |-> tail, method |-> method, ctype |-> ctype, remote |-> remote,
     query |-> query]

\* A SocketAddr.
Peer(ip, port) == [ip |-> ip, port |-> port]

GitRequests ==
    { GitReq(<<"info", "/", "refs">>, "GET", None, Some(Peer("10.1.2.3", "40312")),
             <<"service=git-upload-pack">>),
      GitReq(<<"git-upload-pack">>, "POST",
             Some("application/x-git-upload-pack-request"), Some(Peer("10.9.8.7", "51000")), <<>>),
      GitReq(<<"HEAD">>, "GET", None, None, <<>>),
      GitReq(<<>>, "POST", Some("text/plain"), None, <<"a=b">>) }

\* The environment of the server process, which Command inherits by default.
ServerEnv == [PATH |-> <<"/usr/bin">>, HOME |-> <<"/root">>, SECRET |-> <<"token">>]

IndexFolder == <<"<root>", "/", "index">>

SetEnv(env, name, value) == (name :> value) @@ env

\* cmd.env_clear()
EnvKept(env) == env
EnvClear(env) == <<>>

\* Lines 375-396: the environment handle_git gives the child.
SpawnEnv(r) ==
    LET remote == IF r.remote = None THEN "127.0.0.1" ELSE r.remote[1].ip
        e0 == EnvClear(ServerEnv)
        e1 == SetEnv(e0, "GIT_PROJECT_ROOT", IndexFolder)
        e2 == SetEnv(e1, "PATH_INFO", <<"/">> \o r.tail)
        e3 == SetEnv(e2, "REQUEST_METHOD", <<r.method>>)
        e4 == SetEnv(e3, "QUERY_STRING", r.query)
        e5 == SetEnv(e4, "REMOTE_USER", <<>>)
        e6 == SetEnv(e5, "REMOTE_ADDR", <<remote>>)
        e7 == IF r.ctype = None THEN e6 ELSE SetEnv(e6, "CONTENT_TYPE", <<r.ctype[1]>>)
    IN  SetEnv(e7, "GIT_HTTP_EXPORT_ALL", <<"true">>)

\* Lines of the child's header block, as token sequences.
StatusLine == <<"Status", ": ", "4", "0", "4", " Not Found", "\r", "\n">>
TypeLine == <<"Content-Type", ": ", "application/x-git-upload-pack-result", "\r", "\n">>
CookieA == <<"Set-Cookie", ": ", "a=1", "\r", "\n">>
CookieB == <<"Set-Cookie", ": ", "b=2", "\r", "\n">>
BlankLine == <<"\r", "\n">>
DataChunk == <<"pack data">>

HeaderBlocks ==
    { <<TypeLine>>, <<StatusLine, TypeLine>>, <<TypeLine, StatusLine>>,
      <<CookieA, CookieB>>, <<>> }

Reads(n) == [i \in 1..n |-> <<"read">>]
Writes(items) == [i \in 1..Len(items) |-> <<"write", items[i]>>]

\* What a CGI child may do with its pipes: read the n body chunks and then
\* answer; write the header block, read, then write the data; or write the
\* whole answer before it reads anything.
ChildPrograms(n, blocks) ==
    UNION {{ Reads(n) \o Writes(Append(h, BlankLine) \o <<DataChunk>>),
             Writes(Append(h, BlankLine)) \o Reads(n) \o Writes(<<DataChunk>>),
             Writes(Append(h, BlankLine) \o <<DataChunk>>) \o Reads(n) }
           : h \in blocks}

\* str::trim_end
RECURSIVE TrimEnd(_)
TrimEnd(line) ==
    IF line = <<>> THEN line
    ELSE LET last == line[Len(line)] IN
         IF last \in {"\r", "\n", " "} THEN TrimEnd(SubSeq(line, 1, Len(line) - 1))
         ELSE IF last = ": " THEN Append(SubSeq(line, 1, Len(line) - 1), ":")
         ELSE line

\* str::split_once(": ")
SplitOnce(line) ==
    LET at == {i \in 1..Len(line) : line[i] = ": "} IN
    IF at = {} THEN None
    ELSE LET i == CHOOSE j \in at : \A k \in at : j <= k IN
         Some(<<SubSeq(line, 1, i - 1), SubSeq(line, i + 1, Len(line))>>)

\* HashMap::insert: one value per key, the last one inserted.
HeaderInsert(headers, key, val) == (key :> val) @@ headers

DefaultStatus == <<"2", "0", "0">>

\* Lines 427-434: the response handle_git builds from the collected headers.
BuildResponse(headers) ==
    [status |-> IF <<"Status">> \in DOMAIN headers
                THEN SubSeq(headers[<<"Status">>], 1, 3) ELSE DefaultStatus,
     headers |-> {<<k, headers[k]>> : k \in DOMAIN headers \ {<<"Status">>}}]

\* response(Ok(resp)): with_status(resp.into_response(), StatusCode::OK).
WithStatusOk(r) == [r EXCEPT !.status = DefaultStatus]

\* handle_git takes the path of the index, not the Index: it has no access
\* to Index.repository.
LockTakenByGit(c) == Some(c)
LockAfterGit(c) == lock

\* A git client's request reaches the route; lines 375-401: the child is
\* spawned with its environment and its two pipes.
HandleGitSpawn(c, reqs, blocks) ==
    /\ pc[c] = "idle"
    /\ cgi.pc \in {"none", "done", "failed"}
    /\ cgi.n < MaxGitRequests
    /\ \E r \in reqs, n \in 0..MaxBody, h \in blocks :
         \E prog \in ChildPrograms(n, {h}) :
            /\ cgi' = [NoCgi EXCEPT !.pc = "write", !.owner = c, !.req = r,
                                     !.env = SpawnEnv(r), !.bodyLeft = n,
                                     !.lockAtSpawn = lock, !.n = cgi.n + 1]
            /\ child' = [NoChild EXCEPT !.pc = "run", !.prog = prog, !.block = h,
                                         !.stdinOpen = TRUE]
    /\ pc' = [pc EXCEPT ![c] = "git"]
    /\ lock' = LockAfterGit(c)
    /\ UNCHANGED <<frame, work, staged, commits, head, serverInfo, repoExists,
                   indexVars, clientVars, routeVars, commitVars, sync, toolVars>>

GitFails(c) ==
    /\ cgi' = [cgi EXCEPT !.pc = "failed"]
    /\ child' = [child EXCEPT !.stdinOpen = FALSE]
    /\ pc' = [pc EXCEPT ![c] = "idle"]

\* Lines 404-407: every chunk of the request body is written to the child's
\* stdin, one after the other; a write waits while the pipe is full.
HandleGitWrite(c) ==
    /\ pc[c] = "git" /\ cgi.owner = c /\ cgi.pc = "write"
    /\ IF cgi.bodyLeft = 0
       THEN /\ cgi' = [cgi EXCEPT !.pc = "headers"]
            /\ UNCHANGED <<child, pc>>
       ELSE IF child.pc = "exited"
       THEN GitFails(c)
       ELSE /\ child.stdin < PipeCap
            /\ child' = [child EXCEPT !.stdin = @ + 1]
            /\ cgi' = [cgi EXCEPT !.bodyLeft = @ - 1]
            /\ UNCHANGED pc
    /\ UNCHANGED <<frame, work, gitVars, indexVars, clientVars, routeVars,
                   commitVars, sync, toolVars>>

\* Lines 410-424: read the child's output line by line up to the empty line
\* (or the end of the output) and collect the "Key: Value" lines.
HandleGitReadLine(c) ==
    /\ pc[c] = "git" /\ cgi.owner = c /\ cgi.pc = "headers"
    /\ child.stdout # <<>> \/ child.pc = "exited"
    /\ LET line == IF child.stdout = <<>> THEN <<>> ELSE TrimEnd(Head(child.stdout))
           kv == SplitOnce(line) IN
       /\ child' = [child EXCEPT !.stdout = IF @ = <<>> THEN @ ELSE Tail(@)]
       /\ cgi' = IF line = <<>> THEN [cgi EXCEPT !.pc = "respond"]
                 ELSE IF kv = None THEN cgi
                 ELSE [cgi EXCEPT !.headers = HeaderInsert(@, kv[1][1], kv[1][2])]
    /\ UNCHANGED <<pc, frame, work, gitVars, indexVars, clientVars, routeVars,
                   commitVars, sync, toolVars>>

\* Lines 427-442: build the response, spawn send_git and return; the route
\* answers response(Ok(resp)).  The stdin handle is dropped on return.
HandleGitRespond(c) ==
    /\ pc[c] = "git" /\ cgi.owner = c /\ cgi.pc = "respond"
    /\ IF <<"Status">> \in DOMAIN cgi.headers /\ Len(cgi.headers[<<"Status">>]) < 3
       THEN GitFails(c)
       ELSE /\ cgi' = [cgi EXCEPT !.pc = "streaming",
                                  !.resp = BuildResponse(cgi.headers),
                                  !.served = WithStatusOk(BuildResponse(cgi.headers))]
            /\ child' = [child EXCEPT !.stdinOpen = FALSE]
            /\ UNCHANGED pc
    /\ UNCHANGED <<frame, work, gitVars, indexVars, clientVars, routeVars,
                   commitVars, sync, toolVars>>

\* send_git: forward the rest of the child's output until its end.
SendGit(c) ==
    /\ pc[c] = "git" /\ cgi.owner = c /\ cgi.pc = "streaming"
    /\ IF child.stdout # <<>>
       THEN /\ child' = [child EXCEPT !.stdout = Tail(@)]
            /\ cgi' = [cgi EXCEPT !.sent = @ + 1]
            /\ UNCHANGED pc
       ELSE /\ child.pc = "exited"
            /\ cgi' = [cgi EXCEPT !.pc = "done"]
            /\ pc' = [pc EXCEPT ![c] = "idle"]
            /\ UNCHANGED child
    /\ UNCHANGED <<frame, work, gitVars, indexVars, clientVars, routeVars,
                   commitVars, sync, toolVars>>

\* The child runs its program: a read takes a chunk from its stdin (or sees
\* the end of input once the write end is closed), a write waits while its
\* stdout pipe is full.
ChildStep ==
    /\ child.pc = "run"
    /\ IF child.prog = <<>>
       THEN child' = [child EXCEPT !.pc = "exited"]
       ELSE LET op == Head(child.prog) IN
            IF op[1] = "read"
            THEN /\ child.stdin > 0 \/ ~child.stdinOpen
                 /\ child' = [child EXCEPT !.prog = Tail(@),
                                           !.stdin = IF @ > 0 THEN @ - 1 ELSE 0]
            ELSE /\ Len(child.stdout) < PipeCap
                 /\ child' = [child EXCEPT !.prog = Tail(@),
                                           !.stdout = Append(@, op[2])]
    /\ UNCHANGED <<pc, frame, work, gitVars, indexVars, clientVars, routeVars,
                   commitVars, cgi, sync, toolVars>>

HandleGit(c, reqs, blocks) ==
    \/ HandleGitSpawn(c, reqs, blocks)
    \/ HandleGitWrite(c)
    \/ HandleGitReadLine(c)
    \/ HandleGitRespond(c)
    \/ SendGit(c)

\* Git clients of /git/index, one request at a time.
NextCgi ==
    \/ \E c \in Clients : HandleGit(c, GitRequests, HeaderBlocks)
    \/ ChildStep

SpecCgi == Init /\ [][NextCgi]_vars

\* A fetch (POST git-upload-pack) while other tasks commit to the index.
UploadPack ==
    GitReq(<<"git-upload-pack">>, "POST",
           Some("application/x-git-upload-pack-request"), Some(Peer("10.1.2.3", "40312")), <<>>)

NextGit ==
    \/ \E c \in Clients :
          \/ HandleGit(c, {UploadPack}, {<<TypeLine>>})
          \/ CallAddAndCommit(c)
          \/ AddAndCommit(c)
    \/ ChildStep

SpecGit == Init /\ [][NextGit]_vars

-----------------------------------------------------------------------------
(* rustup mirror: download batches, channel sync and channel history *)

\* How many syncs one pack run performs, and the largest worker pool.
MaxSyncs == 2
MaxThreads == 2

Linux == "x86_64-unknown-linux-gnu"
Msvc == "x86_64-pc-windows-msvc"

\* Platforms { unix, windows } as resolved for the run.
SelectedPlatforms == [unix |-> <<Linux>>, windows |-> <<Msvc>>]

\* The platform selections a rustup-init sync is run with.
PlatformSelections ==
    {SelectedPlatforms,
     [unix |-> <<"aarch64-apple-darwin", Linux>>, windows |-> <<Msvc>>]}

\* The platform selections a channel sync is run with.
ChannelSelections ==
    {SelectedPlatforms,
     [unix |-> <<>>, windows |-> <<Msvc>>]}

PlatformsContains(platforms, name) ==
    name \in Range(platforms.unix) \cup Range(platforms.windows)

Source == <<"https:", "/", "/", "static.rust-lang.org">>

XzUrl(date, file) == Source \o <<"/", "dist", "/", date, "/", file>>

TargetUrls(date, file) == [xz_url |-> XzUrl(date, file), xz_hash |-> <<"#", file>>]

\* Channel manifests the upstream server can answer with: date and packages,
\* each package with its targets, a target with or without download urls.
ManifestA ==
    [date |-> <<"2024-01-15">>,
     pkg |-> << [name |-> "cargo",
                 target |-> << [name |-> Linux,
                                urls |-> Some(TargetUrls("2024-01-15", "cargo-linux.tar.xz"))],
                               [name |-> "aarch64-apple-darwin",
                                urls |-> Some(TargetUrls("2024-01-15", "cargo-darwin.tar.xz"))] >>],
                [name |-> "rust-src",
                 target |-> << [name |-> "*",
                                urls |-> Some(TargetUrls("2024-01-15", "rust-src.tar.xz"))] >>],
                [name |-> "rustc-dev",
                 target |-> << [name |-> Linux,
                                urls |-> Some(TargetUrls("2024-01-15", "rustc-dev.tar.xz"))] >>] >>]

ManifestB ==
    [date |-> <<"2024-02-01">>,
     pkg |-> << [name |-> "cargo",
                 target |-> << [name |-> Linux,
                                urls |-> Some(TargetUrls("2024-02-01", "cargo-linux.tar.xz"))] >>],
                [name |-> "rust-docs",
                 target |-> << [name |-> Linux, urls |-> None] >>] >>]

Manifests == {ManifestA, ManifestB}

SyncChannels == { <<"stable">>, <<"nightly-", "2024-01-15">> }

\* str::split('/'): every segment, the empty ones included.
RECURSIVE SplitKeep(_, _, _)
SplitKeep(tokens, cur, acc) ==
    IF tokens = <<>> THEN Append(acc, cur)
    ELSE IF Head(tokens) = "/" THEN SplitKeep(Tail(tokens), <<>>, Append(acc, cur))
    ELSE SplitKeep(Tail(tokens), Append(cur, Head(tokens)), acc)

\* xz_url.split('/')[3..].join("/")
RelativeUrl(xz_url) ==
    LET parts == SplitKeep(xz_url, <<>>, <<>>) IN
    JoinSlash(SubSeq(parts, 4, Len(parts)))

RECURSIVE TargetFiles(_, _)
TargetFiles(targets, platforms) ==
    IF targets = <<>> THEN <<>>
    ELSE LET t == Head(targets)
             rest == TargetFiles(Tail(targets), platforms) IN
         IF (PlatformsContains(platforms, t.name) \/ t.name = "*") /\ t.urls # None
         THEN << [url |-> RelativeUrl(t.urls[1].xz_url), hash |-> t.urls[1].xz_hash] >>
              \o rest
         ELSE rest

RECURSIVE PkgFilesWithRustcDev(_, _)
PkgFilesWithRustcDev(pkgs, platforms) ==
    IF pkgs = <<>> THEN <<>>
    ELSE TargetFiles(Head(pkgs).target, platforms)
             \o PkgFilesWithRustcDev(Tail(pkgs), platforms)
RECURSIVE PkgFiles(_, _)
PkgFiles(pkgs, platforms) ==
    IF pkgs = <<>> THEN <<>>
    ELSE LET rest == PkgFiles(Tail(pkgs), platforms) IN
         IF Head(pkgs).name # "rustc-dev"
         THEN TargetFiles(Head(pkgs).target, platforms) \o rest
         ELSE rest

rustup_download_list(manifest, platforms) ==
    [date |-> manifest.date, files |-> PkgFiles(manifest.pkg, platforms)]

\* str::strip_prefix
StripPrefix(s, prefix) ==
    IF s # <<>> /\ Head(s) = prefix THEN Some(Tail(s)) ELSE None

\* The manifest's place under the mirror root, and the files the history is
\* to retain besides the download list.
ChannelPathChunk(channel) ==
    LET inner == StripPrefix(channel, "nightly-") IN
    IF inner # None
    THEN <<"dist", "/">> \o inner[1] \o <<"/", "channel-rust-nightly.toml">>
    ELSE <<"dist", "/", "channel-rust-">> \o channel \o <<".toml">>

Sha256Of(path) == path \o <<".sha256">>

ExtraFilesAlways(channel) ==
    <<ChannelPathChunk(channel), Sha256Of(ChannelPathChunk(channel))>>
ExtraFiles(channel) ==
    IF StripPrefix(channel, "nightly-") # None
    THEN <<ChannelPathChunk(channel), Sha256Of(ChannelPathChunk(channel))>>
    ELSE <<>>

\* What one download can end with.
DownloadOutcomes == {"Ok", "NotFound", "ChecksumMismatch", "Transport"}

\* download(): the file is at dest only when the download succeeded.
download(disk, dests, outcome) ==
    IF outcome = "Ok" THEN disk \cup dests ELSE disk

\* The files one task of a batch writes.
InitDests(platform, is_exe, version) ==
    LET file == IF is_exe THEN "rustup-init.exe" ELSE "rustup-init" IN
    { <<"rustup", "/", "archive", "/", version, "/", platform, "/", file>>,
      <<"rustup", "/", "dist", "/", platform, "/", file>> }

Queued(batch, dests) == [state |-> "queued", batch |-> batch, dests |-> dests, out |-> "none"]

\* The tasks of create_sync_tasks over one platform list.
InitTasks(platforms, is_exe, batch, version) ==
    [i \in 1..Len(platforms) |-> Queued(batch, InitDests(platforms[i], is_exe, version))]

ChannelTasks(files) ==
    [i \in 1..Len(files) |-> Queued(1, {files[i].url})]

RunningNone(tasks) == {}
Running(tasks) == {i \in 1..Len(tasks) : tasks[i].state = "running"}

Finished(tasks) == {i \in 1..Len(tasks) : tasks[i].state = "done"}

\* The stream a buffer_unordered pulls from hands out its items in order.
NextQueued(tasks, i) ==
    /\ tasks[i].state = "queued"
    /\ \A j \in 1..(i - 1) : tasks[j].state # "queued"
    /\ \A j \in 1..Len(tasks) : tasks[j].batch < tasks[i].batch => tasks[j].state = "done"

\* buffer_unordered polls the stream of tasks, and so pulls its next item or
\* learns that it has ended, only while it holds fewer than `threads` handles.
StreamPolled(tasks, threads) == Cardinality(Running(tasks)) < threads

\* collect().await ends when every task was spawned and joined.
BatchAbortsOnFailure(tasks) ==
    \/ Finished(tasks) = 1..Len(tasks)
    \/ \E i \in Finished(tasks) : tasks[i].out \notin {"Ok", "NotFound"}
Collected(tasks) == Finished(tasks) = 1..Len(tasks)

\* The match on the error of a task.
CountsNotFoundToo(out) == out # "Ok"
IsCounted(out) == out \notin {"Ok", "NotFound"}

RECURSIVE CountErrors(_)
CountErrors(results) ==
    IF results = <<>> THEN 0
    ELSE (IF IsCounted(Head(results)) THEN 1 ELSE 0) + CountErrors(Tail(results))

BatchResult(errors_occurred) ==
    IF errors_occurred = 0 THEN [kind |-> "Ok", count |-> 0]
    ELSE [kind |-> "FailedDownloads", count |-> errors_occurred]

\* The history file is written when no download of the batch was counted.
WritesHistoryAlways(errors_occurred) == TRUE
WritesHistory(errors_occurred) == errors_occurred = 0

\* get_channel_history: a missing file reads as an Io error, taken as empty.
ChannelHistory(history, channel) ==
    IF channel \in DOMAIN history THEN history[channel] ELSE <<>>

RECURSIVE FileNames(_)
FileNames(files) ==
    IF files = <<>> THEN <<>> ELSE <<Head(files).url>> \o FileNames(Tail(files))

HistoryOfThisSyncOnly(history, channel, date, files, extra_files) ==
    (channel :> (date :> (FileNames(files) \o extra_files))) @@ history
add_to_channel_history(history, channel, date, files, extra_files) ==
    (channel :> ((date :> (FileNames(files) \o extra_files))
                 @@ ChannelHistory(history, channel)))
    @@ history

\* append_to_path(path, suffix)
AppendToPath(path, suffix) == path \o <<suffix>>

\* move_if_exists(from, to): a rename, when from exists.
MoveIfExists(disk, from, to) ==
    IF from \in disk THEN (disk \ {from}) \cup {to} ELSE disk

\* The body of a downloaded manifest: the date of the manifest it parses to.
Unparsable == <<"not a manifest">>

ManifestBody(manifest, parses) == IF parses THEN manifest.date ELSE Unparsable

\* download() of a manifest: its body is at dest only when it succeeded.
downloadBody(toml, dest, body, outcome) ==
    IF outcome = "Ok" THEN (dest :> body) @@ toml ELSE toml

\* The rename of move_if_exists carries the body along.
MoveBody(toml, from, to) ==
    IF from \in DOMAIN toml
    THEN [p \in (DOMAIN toml \ {from}) \cup {to} |->
             IF p = to THEN toml[from] ELSE toml[p]]
    ELSE toml

\* Where the manifest is downloaded to.
DownloadsToFinalPath(channel_path) == channel_path
channel_part_path(channel_path) == AppendToPath(channel_path, ".part")

\* download_pinned_rust_version gives up when the manifest of a pinned
\* version is NotFound.
PinnedSyncFailed ==
    /\ pack.args.versions # <<>>
    /\ sync.pc = "returned" /\ sync.kind = "channel"
    /\ sync.ret.kind # "Ok"
PinnedNotFound ==
    /\ pack.args.versions # <<>>
    /\ sync.pc = "returned" /\ sync.kind = "channel"
    /\ sync.ret.kind = "Download" /\ sync.cause = "NotFound"

\* A sync is called on its own, or by a pack run as the next of its syncs.
SyncStarts(kind) ==
    /\ sync.pc \in {"none", "returned"}
    /\ IF pack.pc = "none" THEN pack.unpacks = 0 /\ sync.n < MaxSyncs
       ELSE /\ pack.pc = "syncing"
            /\ sync.n < Len(pack.todo)
            /\ pack.todo[sync.n + 1].kind = kind
            /\ ~PinnedNotFound

\* The arguments of the sync, and what upstream serves.
ArgChannels ==
    IF pack.pc = "none" THEN SyncChannels ELSE {pack.todo[sync.n + 1].channel}

ArgThreads == IF pack.pc = "none" THEN 0..MaxThreads ELSE {pack.args.threads}

ArgPlatforms(standalone) ==
    IF pack.pc = "none" THEN standalone ELSE {pack.platforms}

UpstreamManifests == IF pack.pc = "none" THEN Manifests ELSE {ManifestB}

UpstreamOutcomes ==
    IF pack.pc = "none" THEN DownloadOutcomes ELSE {"Ok", "NotFound", "Transport"}

\* What the download of a manifest or of the release file ends with.
ManifestOutcomes ==
    IF pack.pc = "none" THEN DownloadOutcomes ELSE {"Ok", "NotFound"}

\* sync_rustup_channel up to the first poll of the task stream.
SyncRustupChannel ==
    /\ SyncStarts("channel")
    /\ \E channel \in ArgChannels, manifest \in UpstreamManifests,
          outcome \in ManifestOutcomes, parses \in BOOLEAN,
          threads \in ArgThreads, platforms \in ArgPlatforms(ChannelSelections) :
         LET chunk == ChannelPathChunk(channel)
             part == channel_part_path(chunk)
             list == rustup_download_list(manifest, platforms)
             started == [sync EXCEPT !.kind = "channel", !.channel = channel,
                                     !.threads = threads, !.n = @ + 1,
                                     !.tasks = <<>>, !.results = <<>>,
                                     !.date = <<>>, !.files = <<>>,
                                     !.extra = ExtraFiles(channel),
                                     !.cause = outcome,
                                     !.before = sync.history,
                                     !.pb = 0,
                                     !.disk = download(@, {part, Sha256Of(part)},
                                                       outcome),
                                     !.toml = downloadBody(@, part,
                                                  ManifestBody(manifest, parses),
                                                  outcome)] IN
         IF outcome # "Ok"
         THEN sync' = [started EXCEPT
                          !.pc = "returned",
                          !.ret = [kind |-> "Download", count |-> 0]]
         ELSE IF ~parses
         THEN sync' = [started EXCEPT
                          !.pc = "returned",
                          !.ret = [kind |-> "Deserialize", count |-> 0]]
         ELSE sync' = [started EXCEPT
                          !.pc = "tasks",
                          !.disk = MoveIfExists(MoveIfExists(@, Sha256Of(part),
                                                             Sha256Of(chunk)),
                                                part, chunk),
                          !.toml = MoveBody(@, part, chunk),
                          !.date = list.date, !.files = list.files,
                          !.tasks = ChannelTasks(list.files),
                          !.ret = <<>>]
    /\ UNCHANGED <<pc, frame, work, gitVars, indexVars, clientVars, routeVars,
                 commitVars, cgi, child, toolVars>>

\* sync_rustup_init up to the first poll of the first task stream.
SyncRustupInit ==
    /\ SyncStarts("init")
    /\ \E outcome \in ManifestOutcomes, parses \in BOOLEAN,
          threads \in ArgThreads, platforms \in ArgPlatforms(PlatformSelections) :
         LET release == <<"rustup", "/", "release-stable.toml">>
             part == AppendToPath(release, ".part")
             version == "1.26.0"
             started == [sync EXCEPT !.kind = "init", !.channel = <<>>,
                                     !.threads = threads, !.n = @ + 1,
                                     !.tasks = <<>>, !.results = <<>>,
                                     !.date = <<>>, !.files = <<>>,
                                     !.extra = <<>>,
                                     !.cause = outcome,
                                     !.before = sync.history,
                                     !.pb = 0,
                                     !.disk = download(@, {part}, outcome)] IN
         IF outcome # "Ok"
         THEN sync' = [started EXCEPT
                          !.pc = "returned",
                          !.ret = [kind |-> "Download", count |-> 0]]
         ELSE IF ~parses
         THEN sync' = [started EXCEPT
                          !.pc = "returned",
                          !.ret = [kind |-> "Deserialize", count |-> 0]]
         ELSE sync' = [started EXCEPT
                          !.pc = "tasks",
                          !.disk = MoveIfExists(@, part, release),
                          !.tasks = InitTasks(platforms.unix, FALSE, 1, version)
                                    \o InitTasks(platforms.windows, TRUE, 2, version),
                          !.ret = <<>>]
    /\ UNCHANGED <<pc, frame, work, gitVars, indexVars, clientVars, routeVars,
                 commitVars, cgi, child, toolVars>>

\* buffer_unordered pulls the next item and tokio::spawn starts its task.
TaskSpawn ==
    /\ sync.pc = "tasks"
    /\ StreamPolled(sync.tasks, sync.threads)
    /\ \E i \in 1..Len(sync.tasks) :
         /\ NextQueued(sync.tasks, i)
         /\ sync' = [sync EXCEPT !.tasks[i].state = "running"]
    /\ UNCHANGED <<pc, frame, work, gitVars, indexVars, clientVars, routeVars,
                 commitVars, cgi, child, toolVars>>

\* A spawned task ends, with whatever its download gave, and is joined.
TaskFinish ==
    /\ sync.pc = "tasks"
    /\ \E i \in Running(sync.tasks), outcome \in UpstreamOutcomes :
         sync' = [sync EXCEPT !.tasks[i].state = "done",
                              !.tasks[i].out = outcome,
                              !.results = Append(@, outcome),
                              !.pb = @ + 1,
                              !.disk = download(@, sync.tasks[i].dests, outcome)]
    /\ UNCHANGED <<pc, frame, work, gitVars, indexVars, clientVars, routeVars,
                 commitVars, cgi, child, toolVars>>

\* The loop over the joined tasks, and the result.
SyncReturn ==
    /\ sync.pc = "tasks"
    /\ Collected(sync.tasks)
    /\ StreamPolled(sync.tasks, sync.threads)
    /\ LET errors_occurred == CountErrors(sync.results)
           ret == BatchResult(errors_occurred) IN
       sync' = [sync EXCEPT
                   !.pc = "returned",
                   !.ret = ret,
                   !.history =
                       IF WritesHistory(errors_occurred) /\ sync.kind = "channel"
                       THEN add_to_channel_history(@, sync.channel, sync.date,
                                                   sync.files, sync.extra)
                       ELSE @]
    /\ UNCHANGED <<pc, frame, work, gitVars, indexVars, clientVars, routeVars,
                 commitVars, cgi, child, toolVars>>

NextSync ==
    \/ SyncRustupChannel
    \/ SyncRustupInit
    \/ TaskSpawn
    \/ TaskFinish
    \/ SyncReturn

SpecSync == Init /\ [][NextSync]_vars

\* The runtime polls the collect of a sync that can go on, and every download
\* of a spawned task ends.
SpecSyncFair ==
    SpecSync /\ WF_vars(TaskSpawn) /\ WF_vars(TaskFinish) /\ WF_vars(SyncReturn)

-----------------------------------------------------------------------------
(* The download engine: download(url, dest, expected_sha256?, retries, ..) *)

\* The largest retries setting, and the downloads one run makes.
MaxRetries == 2
MaxDownloads == 2

\* What the server can answer one GET with: 404, a failed transfer, the
\* file, or other bytes than the ones the checksum was made of.
ServerAnswers == {"404", "transport", "good", "bad"}

HashOf(body) == <<"#", body>>

\* The checksums a caller supplies: none, or the one of the published file.
ExpectedHashes == {None, Some(HashOf("good"))}

IsBody(answer) == answer \in {"good", "bad"}

\* A 404 ends the download at once; a failed transfer is tried again.
RetriesNotFoundToo(answer) == answer \in {"transport", "404"}
IsRetried(answer) == answer = "transport"

\* The check of dest.part against the expected hash, if one was supplied.
VerifiedAlways(expected, body) == TRUE
Verified(expected, body) == expected = None \/ expected[1] = HashOf(body)

DownloadStart ==
    /\ down.pc \in {"none", "returned"}
    /\ down.n < MaxDownloads
    /\ \E expected \in ExpectedHashes, retries \in 0..MaxRetries :
         down' = [NoDown EXCEPT !.pc = "get", !.expected = expected,
                                !.retries = retries, !.n = down.n + 1]
    /\ UNCHANGED <<pc, frame, work, gitVars, indexVars, clientVars, routeVars,
                   commitVars, cgi, child, sync, pack, eval>>

\* One GET and what follows it: the body goes to dest.part, is verified and
\* renamed to dest; a failed transfer is retried while retries are left.
DownloadAttempt ==
    /\ down.pc = "get"
    /\ \E answer \in ServerAnswers :
         LET tried == [down EXCEPT !.attempts = @ + 1,
                                   !.answers = Append(@, answer)] IN
         down' =
            IF IsBody(answer)
            THEN IF Verified(down.expected, answer)
                 THEN [tried EXCEPT !.pc = "returned", !.part = None,
                                    !.dest = Some(answer), !.ret = "Ok"]
                 ELSE [tried EXCEPT !.pc = "returned", !.part = Some(answer),
                                    !.ret = "ChecksumMismatch"]
            ELSE IF IsRetried(answer)
            THEN IF down.attempts < down.retries
                 THEN tried
                 ELSE [tried EXCEPT !.pc = "returned", !.ret = "Transport"]
            ELSE [tried EXCEPT !.pc = "returned", !.ret = "NotFound"]
    /\ UNCHANGED <<pc, frame, work, gitVars, indexVars, clientVars, routeVars,
                   commitVars, cgi, child, sync, pack, eval>>

NextDownload == DownloadStart \/ DownloadAttempt

SpecDownload == Init /\ [][NextDownload]_vars

-----------------------------------------------------------------------------
(* pack and unpack: platforms, the scratch directory, the archive *)

\* The unpack runs one behaviour makes.
MaxUnpacks == 2

\* static PLATFORMS_WINDOWS, of which the model keeps two of the five names.
PLATFORMS_WINDOWS == <<"i586-pc-windows-msvc", Msvc>>

\* A manifest with a windows target, besides the ones a sync is served.
ManifestC ==
    [date |-> <<"2024-03-01">>,
     pkg |-> << [name |-> "cargo",
                 target |-> << [name |-> Msvc,
                                urls |-> Some(TargetUrls("2024-03-01", "cargo-msvc.tar.xz"))],
                               [name |-> Linux,
                                urls |-> Some(TargetUrls("2024-03-01", "cargo-linux.tar.xz"))] >>],
                [name |-> "rust-src",
                 target |-> << [name |-> "*",
                                urls |-> Some(TargetUrls("2024-03-01", "rust-src.tar.xz"))] >>] >>]

NightlyManifests == {ManifestA, ManifestB, ManifestC}

\* The triples of the model in the order of String's Ord.
TripleOrder ==
    <<"aarch64-apple-darwin", "i586-pc-windows-msvc", "riscv64gc-unknown-linux-gnu",
      Msvc, Linux>>

Rank(triple) == CHOOSE i \in 1..Len(TripleOrder) : TripleOrder[i] = triple

\* targets.sort()
RECURSIVE SortTriples(_)
SortTriples(set) ==
    IF set = {} THEN <<>>
    ELSE LET least == CHOOSE t \in set : \A u \in set : Rank(t) <= Rank(u) IN
         <<least>> \o SortTriples(set \ {least})

\* The HashSet of target names, without "*".
TargetNames(manifest) ==
    UNION { {manifest.pkg[i].target[j].name : j \in 1..Len(manifest.pkg[i].target)}
            : i \in 1..Len(manifest.pkg) } \ {"*"}

RECURSIVE Filter(_, _)
Filter(seq, keep) ==
    IF seq = <<>> THEN <<>>
    ELSE (IF Head(seq) \in keep THEN <<Head(seq)>> ELSE <<>>) \o Filter(Tail(seq), keep)

WindowsFromManifest(sorted) == Filter(sorted, Range(PLATFORMS_WINDOWS))
WindowsListed(sorted) == PLATFORMS_WINDOWS

download_platform_list(manifest) ==
    LET sorted == SortTriples(TargetNames(manifest)) IN
    [unix |-> Filter(sorted, TargetNames(manifest) \ Range(PLATFORMS_WINDOWS)),
     windows |-> WindowsListed(sorted)]

\* The items of the iterator over &Platforms: unix, then windows.
PlatformsIntoIterator(platforms) == platforms.unix \o platforms.windows

\* The try_fold of get_platforms over pack_args.platforms.
RECURSIVE ClassifySkipsUnknown(_, _, _)
ClassifySkipsUnknown(named, all, acc) ==
    IF named = <<>> THEN [ok |-> TRUE, val |-> acc]
    ELSE IF Head(named) \in Range(all.windows)
    THEN ClassifySkipsUnknown(Tail(named), all,
                              [acc EXCEPT !.windows = Append(@, Head(named))])
    ELSE IF Head(named) \in Range(all.unix)
    THEN ClassifySkipsUnknown(Tail(named), all,
                              [acc EXCEPT !.unix = Append(@, Head(named))])
    ELSE ClassifySkipsUnknown(Tail(named), all, acc)
RECURSIVE ClassifyPlatforms(_, _, _)
ClassifyPlatforms(named, all, acc) ==
    IF named = <<>> THEN [ok |-> TRUE, val |-> acc]
    ELSE IF Head(named) \in Range(all.windows)
    THEN ClassifyPlatforms(Tail(named), all,
                           [acc EXCEPT !.windows = Append(@, Head(named))])
    ELSE IF Head(named) \in Range(all.unix)
    THEN ClassifyPlatforms(Tail(named), all,
                           [acc EXCEPT !.unix = Append(@, Head(named))])
    ELSE [ok |-> FALSE, val |-> acc]

get_platforms(named, all_platforms) ==
    IF named = <<>> THEN [ok |-> TRUE, val |-> all_platforms]
    ELSE ClassifyPlatforms(named, all_platforms, [unix |-> <<>>, windows |-> <<>>])

\* pack_args.platforms and pack_args.rust_versions of the runs modelled.
ArgPlatformLists ==
    { <<>>, <<Linux>>, <<"i586-pc-windows-msvc">>, <<Linux, "riscv64gc-unknown-linux-gnu">> }

ArgVersions == { <<>>, << <<"1.70.0">> >> }

SyncOf(kind, channel) == [kind |-> kind, channel |-> channel]

RECURSIVE ChannelSyncs(_)
ChannelSyncs(versions) ==
    IF versions = <<>> THEN <<>>
    ELSE <<SyncOf("channel", Head(versions))>> \o ChannelSyncs(Tail(versions))

\* The syncs of download_latest and of download_pinned_rust_version.
PackTodo(versions) ==
    <<SyncOf("init", <<>>)>>
        \o (IF versions = <<>>
            THEN <<SyncOf("channel", <<"stable">>), SyncOf("channel", <<"nightly">>)>>
            ELSE ChannelSyncs(versions))

\* pack up to the first sync: the scratch directory and get_platforms.
PackStart ==
    /\ pack.pc = "none" /\ pack.unpacks = 0
    /\ sync = NoSync
    /\ \E named \in ArgPlatformLists, versions \in ArgVersions,
          threads \in 0..MaxThreads, nightly \in NightlyManifests,
          scratch \in BOOLEAN, listed \in BOOLEAN :
         LET all_platforms == download_platform_list(nightly)
             got == get_platforms(named, all_platforms)
             args == [platforms |-> named, versions |-> versions, threads |-> threads] IN
         pack' = IF ~scratch
                 THEN [pack EXCEPT !.pc = "failed", !.args = args, !.ret = "Err",
                                   !.why = "TempDir"]
                 ELSE IF ~listed
                 THEN [pack EXCEPT !.pc = "failed", !.args = args, !.ret = "Err",
                                   !.why = "Platforms"]
                 ELSE IF ~got.ok
                 THEN [pack EXCEPT !.pc = "failed", !.args = args, !.ret = "Err",
                                   !.why = "Platforms",
                                   !.listed = TRUE, !.all = all_platforms]
                 ELSE [pack EXCEPT !.pc = "syncing", !.args = args,
                                   !.listed = TRUE, !.all = all_platforms,
                                   !.platforms = got.val,
                                   !.todo = PackTodo(versions)]
    /\ UNCHANGED <<pc, frame, work, gitVars, indexVars, clientVars, routeVars,
                   commitVars, cgi, child, sync, down, eval>>

\* The manifest of a pinned version was NotFound: pack returns the error.
PackPinnedNotFound ==
    /\ pack.pc = "syncing"
    /\ PinnedNotFound
    /\ pack' = [pack EXCEPT !.pc = "failed", !.ret = "Err", !.why = "NotFound"]
    /\ UNCHANGED <<pc, frame, work, gitVars, indexVars, clientVars, routeVars,
                   commitVars, cgi, child, sync, down, eval>>

\* What upstream serves at a path, and what a history file holds.
Mirrored(path) == <<"upstream:">> \o path

\* The name as the pieces the server's string operations tell apart.
HistoryFileName(channel) ==
    <<"mirror-">>
        \o (IF Head(channel) = "nightly-"
            THEN <<"nightly", "-">> \o Tail(channel) ELSE channel)
        \o <<"-", "history.toml">>

\* The files of the scratch directory: what the syncs left on disk and the
\* history files they wrote.
ScratchTree ==
    [path \in sync.disk |-> Mirrored(path)]
    @@ [name \in {HistoryFileName(c) : c \in DOMAIN sync.history} |-> <<"versions">>]

TarEntry(path, content) == [path |-> path, content |-> content, ok |-> TRUE]

\* append_dir_all: one entry for every file under the directory.
RECURSIVE AppendDirAll(_)
AppendDirAll(tree) ==
    IF DOMAIN tree = {} THEN <<>>
    ELSE LET path == CHOOSE q \in DOMAIN tree : TRUE IN
         <<TarEntry(path, tree[path])>>
             \o AppendDirAll([q \in DOMAIN tree \ {path} |-> tree[q]])

\* File::create(pack_file) and the tar of the scratch directory; when
\* append_dir_all fails, pack_file is left with a part of the archive.
PackArchive ==
    /\ pack.pc = "syncing"
    /\ sync.pc = "returned" /\ sync.n = Len(pack.todo)
    /\ ~PinnedNotFound
    /\ \E created \in BOOLEAN, appended \in BOOLEAN :
         pack' = IF ~created
                 THEN [pack EXCEPT !.pc = "failed", !.ret = "Err", !.why = "Create"]
                 ELSE IF ~appended
                 THEN [pack EXCEPT !.pc = "failed", !.ret = "Err", !.why = "Append",
                                   !.created = TRUE]
                 ELSE [pack EXCEPT !.pc = "packed", !.ret = "Ok",
                                   !.created = TRUE,
                                   !.archive = Some(AppendDirAll(ScratchTree))]
    /\ UNCHANGED <<pc, frame, work, gitVars, indexVars, clientVars, routeVars,
                   commitVars, cgi, child, sync, down, eval>>

\* Archive::unpack(dst): the entries in order, every file written over what
\* is there, up to the first entry that cannot be read.
UnpackKeepsExisting(entries, tree) ==
    LET RECURSIVE Keep(_, _)
        Keep(es, t) ==
            IF es = <<>> THEN [ok |-> TRUE, tree |-> t]
            ELSE IF ~Head(es).ok THEN [ok |-> FALSE, tree |-> t]
            ELSE Keep(Tail(es), t @@ (Head(es).path :> Head(es).content))
    IN Keep(entries, tree)
ArchiveUnpack(entries, tree) ==
    LET RECURSIVE Over(_, _)
        Over(es, t) ==
            IF es = <<>> THEN [ok |-> TRUE, tree |-> t]
            ELSE IF ~Head(es).ok THEN [ok |-> FALSE, tree |-> t]
            ELSE Over(Tail(es), WriteFile(t, Head(es).path, Head(es).content))
    IN Over(entries, tree)

\* Tar files from elsewhere: one that holds a manifest path with other bytes
\* and a file of its own, one with the same path twice, one cut short.
StableToml == <<"dist", "/", "channel-rust-", "1.70.0", ".toml">>

TarFiles ==
    { << TarEntry(StableToml, <<"older bytes">>),
         TarEntry(<<"notes.txt">>, <<"notes">>) >>,
      << TarEntry(<<"notes.txt">>, <<"first">>),
         TarEntry(<<"notes.txt">>, <<"second">>) >>,
      << TarEntry(<<"readme">>, <<"r">>),
         [path |-> <<>>, content |-> <<>>, ok |-> FALSE] >> }

PackedFiles == IF pack.archive = None THEN TarFiles ELSE {pack.archive[1]}

Unpacked(entries, via, ctype) ==
    LET res == ArchiveUnpack(entries, pack.root) IN
    [pack EXCEPT !.before = pack.root, !.root = res.tree, !.ok = res.ok,
                 !.prev = pack.last, !.last = Some(entries),
                 !.via = via, !.ctype = ctype, !.unpacks = @ + 1]

\* The archives of pack runs that are unpacked: those of runs whose last
\* sync met no transport error.
UnpackedRuns ==
    /\ sync.cause # "Transport"
    /\ \A i \in 1..Len(sync.tasks) : sync.tasks[i].out # "Transport"

UnpackStarts ==
    /\ pack.pc \in {"none", "packed"}
    /\ pack.pc = "none" => sync = NoSync
    /\ UnpackedRuns
    /\ pack.unpacks < MaxUnpacks

\* The unpack command.
Unpack ==
    /\ UnpackStarts
    /\ \E packed_file \in PackedFiles :
         pack' = Unpacked(packed_file, "cli", None)
    /\ UNCHANGED <<pc, frame, work, gitVars, indexVars, clientVars, routeVars,
                   commitVars, cgi, child, sync, down, eval>>

\* The Content-Type headers a client may send with its PUT.
ContentTypes ==
    {None, Some("application/x-tar"), Some("application/gzip"),
     Some("application/x-tar; charset=binary")}

AcceptsMissingType(content_type) ==
    content_type = None \/ content_type = Some("application/x-tar")
IsTar(content_type) == content_type = Some("application/x-tar")

\* PUT /api/load-pack-file
LoadPackFile ==
    /\ UnpackStarts
    /\ \E data \in PackedFiles, content_type \in ContentTypes :
         IF ~IsTar(content_type)
         THEN pack' = [pack EXCEPT
                          !.before = pack.root, !.via = "put",
                          !.ctype = content_type, !.ok = FALSE,
                          !.unpacks = @ + 1,
                          !.resp = Served(Response(Err(<<"Invalid content type">>)))]
         ELSE LET done == Unpacked(data, "put", content_type) IN
              pack' = [done EXCEPT
                          !.resp = IF done.ok
                                   THEN Served(Response(Ok(<<>>)))
                                   ELSE Served(Response(Err(<<"unpack">>)))]
    /\ UNCHANGED <<pc, frame, work, gitVars, indexVars, clientVars, routeVars,
                   commitVars, cgi, child, sync, down, eval>>

NextPack ==
    \/ PackStart
    \/ SyncRustupInit
    \/ SyncRustupChannel
    \/ TaskSpawn
    \/ TaskFinish
    \/ SyncReturn
    \/ PackPinnedNotFound
    \/ PackArchive
    \/ Unpack
    \/ LoadPackFile

SpecPack == Init /\ [][NextPack]_vars

-----------------------------------------------------------------------------
(* The platform list, the download list and /api/versions, each applied to
   one input *)

\* Manifests: two packages, each with any of four targets, a target with
\* or without download urls.
GenPkgs == <<"cargo", "rustc-dev">>

GenTargets == <<Linux, Msvc, "*", "aarch64-apple-darwin">>

GenFiles ==
    << <<"cargo-linux.tar.xz", "cargo-msvc.tar.xz", "cargo-any.tar.xz",
         "cargo-darwin.tar.xz">>,
       <<"rustc-dev-linux.tar.xz", "rustc-dev-msvc.tar.xz", "rustc-dev-any.tar.xz",
         "rustc-dev-darwin.tar.xz">> >>

GenDate == "2024-03-01"

TargetKinds == {"absent", "nourls", "urls"}

GenTargetsOf(i, kinds) ==
    LET all == [j \in 1..Len(GenTargets) |->
                   [name |-> GenTargets[j], kind |-> kinds[j],
                    urls |-> IF kinds[j] = "urls"
                             THEN Some(TargetUrls(GenDate, GenFiles[i][j]))
                             ELSE None]]
        Present(t) == t.kind # "absent"
        sel == SelectSeq(all, Present) IN
    [k \in 1..Len(sel) |-> [name |-> sel[k].name, urls |-> sel[k].urls]]

GenManifest(f) ==
    [date |-> <<GenDate>>,
     pkg |-> [i \in 1..Len(GenPkgs) |->
                 [name |-> GenPkgs[i], target |-> GenTargetsOf(i, f[i])]]]

GenManifests ==
    {GenManifest(f) :
        f \in [1..Len(GenPkgs) -> [1..Len(GenTargets) -> TargetKinds]]}

GenSelections ==
    {SelectedPlatforms,
     [unix |-> <<Linux>>, windows |-> <<>>],
     [unix |-> <<>>, windows |-> <<Msvc>>]}

\* The platforms-list command: the list of the nightly manifest, printed in
\* the order of the iterator.
PlatformsList ==
    /\ eval = NoEval
    /\ \E manifest \in GenManifests :
         eval' = [NoEval EXCEPT
                     !.pc = "done", !.call = "platforms", !.manifest = manifest,
                     !.out = PlatformsIntoIterator(download_platform_list(manifest))]
    /\ UNCHANGED <<pc, frame, work, gitVars, indexVars, clientVars, routeVars,
                   commitVars, cgi, child, sync, down, pack>>

\* rustup_download_list of a manifest that parses.
DownloadList ==
    /\ eval = NoEval
    /\ \E manifest \in GenManifests, platforms \in GenSelections :
         eval' = [NoEval EXCEPT
                     !.pc = "done", !.call = "download_list",
                     !.manifest = manifest, !.selected = platforms,
                     !.out = rustup_download_list(manifest, platforms)]
    /\ UNCHANGED <<pc, frame, work, gitVars, indexVars, clientVars, routeVars,
                   commitVars, cgi, child, sync, down, pack>>

\* str::strip_prefix and str::strip_suffix with a pattern of several tokens.
StripPrefixSeq(s, prefix) ==
    IF Len(s) >= Len(prefix) /\ SubSeq(s, 1, Len(prefix)) = prefix
    THEN Some(SubSeq(s, Len(prefix) + 1, Len(s)))
    ELSE None

StripSuffixSeq(s, suffix) ==
    IF Len(s) >= Len(suffix) /\ SubSeq(s, Len(s) - Len(suffix) + 1, Len(s)) = suffix
    THEN Some(SubSeq(s, 1, Len(s) - Len(suffix)))
    ELSE None

\* The closure of available_versions for one file of the glob: the channel
\* id of the file, or the error of a `?`.
VersionName(file_name) ==
    LET is_nightly == "nightly" \in Range(file_name) IN
    IF ~is_nightly
    THEN LET rest == StripPrefixSeq(file_name, <<"mirror-">>) IN
         IF rest = None THEN None
         ELSE StripSuffixSeq(rest[1], <<"-", "history.toml">>)
    ELSE LET rest == StripPrefixSeq(file_name, <<"mirror-", "nightly", "-">>) IN
         IF rest = None THEN None
         ELSE LET date == StripSuffixSeq(rest[1], <<"-", "history.toml">>) IN
              IF date = None THEN None
              ELSE Some(<<"nightly", "-">> \o date[1])

\* available_versions: the HashMap of the ids, or the first error.
available_versions(files) ==
    IF \E f \in files : VersionName(f) = None
    THEN [ok |-> FALSE, val |-> {}]
    ELSE [ok |-> TRUE, val |-> {VersionName(f)[1] : f \in files}]

\* The channels whose history files the root may hold.
HistoryChannels ==
    { <<"stable">>, <<"nightly">>, <<"nightly-", "2024-01-15">>, <<"1.70.0">> }

\* GET /api/versions
ApiVersions ==
    /\ eval = NoEval
    /\ \E channels \in SUBSET HistoryChannels :
         LET files == {HistoryFileName(c) : c \in channels}
             res == available_versions(files) IN
         eval' = [NoEval EXCEPT
                     !.pc = "done", !.call = "versions",
                     !.channels = channels, !.files = files, !.out = res,
                     !.resp = Served(Response(IF res.ok THEN Ok(<<"versions">>)
                                              ELSE Err(<<"NoneError">>)))]
    /\ UNCHANGED <<pc, frame, work, gitVars, indexVars, clientVars, routeVars,
                   commitVars, cgi, child, sync, down, pack>>

NextEval ==
    \/ PlatformsList
    \/ DownloadList
    \/ ApiVersions

SpecEval == Init /\ [][NextEval]_vars

-----------------------------------------------------------------------------
(* The entry codec on text: serde_json lines joined and split at line feeds *)

\* A string is a sequence of pieces; two pieces are characters JSON escapes.
LF == "<LF>"
Quote == "<QUOTE>"

EscapeNothing(s) == s
EscapeStr(s) ==
    [i \in 1..Len(s) |->
        IF s[i] = LF THEN "\\n" ELSE IF s[i] = Quote THEN "\\q" ELSE s[i]]

UnescapeStr(s) ==
    [i \in 1..Len(s) |->
        IF s[i] = "\\n" THEN LF ELSE IF s[i] = "\\q" THEN Quote ELSE s[i]]

JsonStr(s) == <<Quote>> \o EscapeStr(s) \o <<Quote>>

\* to_string(&entry): the fields in the order of the struct, compact.
to_string(e) ==
    <<"{", "name:">> \o JsonStr(e.name)
        \o <<",", "vers:">> \o JsonStr(e.vers)
        \o <<",", "yanked:", IF e.yanked THEN "true" ELSE "false">>
        \o <<",", "links:">>
        \o (IF e.links = None THEN <<"null">> ELSE JsonStr(e.links[1]))
        \o <<"}">>

\* A JSON string at the head of the tokens: its value and what follows it.
NoParse == [ok |-> FALSE, val |-> <<>>, rest |-> <<>>]

ParseStr(tokens) ==
    IF tokens = <<>> \/ Head(tokens) # Quote THEN NoParse
    ELSE LET body == Tail(tokens)
             ends == {i \in 1..Len(body) : body[i] = Quote} IN
         IF ends = {} THEN NoParse
         ELSE LET end == CHOOSE i \in ends : \A j \in ends : i <= j
                  raw == SubSeq(body, 1, end - 1) IN
              IF LF \in Range(raw) THEN NoParse
              ELSE [ok |-> TRUE, val |-> UnescapeStr(raw),
                    rest |-> SubSeq(body, end + 1, Len(body))]

\* The tokens after a literal prefix, or None.
Expect(tokens, lits) ==
    IF Len(tokens) >= Len(lits) /\ SubSeq(tokens, 1, Len(lits)) = lits
    THEN Some(SubSeq(tokens, Len(lits) + 1, Len(tokens)))
    ELSE None

\* from_str::<Entry>(line): the fields written by to_string; links may be
\* null or left out, both give None.
from_str(line) ==
    LET a == Expect(line, <<"{", "name:">>) IN
    IF a = None THEN None ELSE
    LET name == ParseStr(a[1]) IN
    IF ~name.ok THEN None ELSE
    LET b == Expect(name.rest, <<",", "vers:">>) IN
    IF b = None THEN None ELSE
    LET vers == ParseStr(b[1]) IN
    IF ~vers.ok THEN None ELSE
    LET c == Expect(vers.rest, <<",", "yanked:">>) IN
    IF c = None \/ c[1] = <<>> \/ Head(c[1]) \notin {"true", "false"} THEN None ELSE
    LET yanked == Head(c[1]) = "true"
        rest == Tail(c[1])
        entry == [name |-> name.val, vers |-> vers.val, yanked |-> yanked,
                  links |-> None] IN
    IF rest = <<"}">> \/ rest = <<",", "links:", "null", "}">> THEN Some(entry)
    ELSE LET d == Expect(rest, <<",", "links:">>) IN
         IF d = None THEN None ELSE
         LET links == ParseStr(d[1]) IN
         IF links.ok /\ links.rest = <<"}">>
         THEN Some([entry EXCEPT !.links = Some(links.val)])
         ELSE None

\* str::lines(): the pieces between line feeds, a last empty piece dropped.
RECURSIVE SplitLines(_, _, _)
SplitLines(text, cur, acc) ==
    IF text = <<>> THEN (IF cur = <<>> THEN acc ELSE Append(acc, cur))
    ELSE IF Head(text) = LF THEN SplitLines(Tail(text), <<>>, Append(acc, cur))
    ELSE SplitLines(Tail(text), Append(cur, Head(text)), acc)

Lines(text) == SplitLines(text, <<>>, <<>>)

\* Itertools::join("\n")
RECURSIVE JoinLF(_)
JoinLF(lines) ==
    IF lines = <<>> THEN <<>>
    ELSE IF Len(lines) = 1 THEN Head(lines)
    ELSE Head(lines) \o <<LF>> \o JoinLF(Tail(lines))

\* Entries::try_into(String)
try_into(es) == JoinLF([i \in 1..Len(es) |-> to_string(es[i])])

RECURSIVE CollectEntries(_, _)
CollectEntries(es, lines) ==
    IF lines = <<>> THEN Some(es)
    ELSE LET e == from_str(Head(lines)) IN
         IF e = None THEN None
         ELSE CollectEntries(Insert(es, e[1]), Tail(lines))

\* Entries::try_from(String)
try_from(text) == CollectEntries(<<>>, Lines(text))

\* The records and the lines of the texts that are tried.
EntryPool ==
    { [name |-> <<"foo">>, vers |-> <<"1.0">>, yanked |-> FALSE, links |-> None],
      [name |-> <<"foo">>, vers |-> <<"1.0">>, yanked |-> TRUE, links |-> None],
      [name |-> <<"foo">>, vers |-> <<"2.0">>, yanked |-> FALSE,
       links |-> Some(<<"a", LF, "b">>)],
      [name |-> <<"b", Quote, "r">>, vers |-> <<"1.0">>, yanked |-> FALSE,
       links |-> Some(<<>>)] }

MaxEntries == 3

\* The contents a SmolSet can have: records without repetition, in any order.
EntrySets ==
    {es \in UNION {[1..n -> EntryPool] : n \in 0..MaxEntries} :
        \A i, j \in 1..Len(es) : es[i] = es[j] => i = j}

TextLine(d) ==
    IF d.kind = "entry" THEN to_string(d.e)
    ELSE IF d.kind = "nolinks"
    THEN SubSeq(to_string(d.e), 1, Len(to_string(d.e)) - 4) \o <<"}">>
    ELSE IF d.kind = "cut" THEN SubSeq(to_string(d.e), 1, 3)
    ELSE IF d.kind = "text" THEN <<"not json">>
    ELSE <<>>

LineKinds == {"entry", "cut", "text", "blank"}

MaxLines == 3

TextPlans ==
    UNION {[1..n -> ([kind : LineKinds, e : EntryPool]
                        \cup [kind : {"nolinks"}, e : {e \in EntryPool : e.links = None}])]
           : n \in 0..MaxLines}

\* Encoding a set and decoding the text.
EntriesRoundTrip ==
    /\ eval = NoEval
    /\ \E es \in EntrySets :
         eval' = [NoEval EXCEPT
                     !.pc = "done", !.call = "round_trip", !.input = es,
                     !.text = try_into(es), !.out = try_from(try_into(es))]
    /\ UNCHANGED <<pc, frame, work, gitVars, indexVars, clientVars, routeVars,
                   commitVars, cgi, child, sync, down, pack>>

\* Decoding the text of an entry file as it may be found.
EntriesDecode ==
    /\ eval = NoEval
    /\ \E plan \in TextPlans :
         LET text == JoinLF([i \in 1..Len(plan) |-> TextLine(plan[i])]) IN
         eval' = [NoEval EXCEPT
                     !.pc = "done", !.call = "decode", !.input = plan,
                     !.text = text, !.out = try_from(text)]
    /\ UNCHANGED <<pc, frame, work, gitVars, indexVars, clientVars, routeVars,
                   commitVars, cgi, child, sync, down, pack>>

NextCodec ==
    \/ EntriesRoundTrip
    \/ EntriesDecode

SpecCodec == Init /\ [][NextCodec]_vars

-----------------------------------------------------------------------------
(* Properties *)

EntryPathsOf(tree) == DOMAIN tree \ {ConfigPath}

AllTrees == {work, staged} \cup {commits[i].tree : i \in 1..Len(commits)}

SameVersion(e, name, vers) == e.name = name /\ e.vers = vers

UniqueVersions(lines) ==
    \A i, j \in 1..Len(lines) :
        SameVersion(lines[i].rec, lines[j].rec.name, lines[j].rec.vers) => i = j

\* C1: whatever publishes ran, succeeded or failed, and however they
\* interleaved, no entry file (in the working tree, the staging area or any
\* commit) holds two records of one (name, version).
C1_OneRecordPerVersion ==
    \A t \in AllTrees : \A p \in EntryPathsOf(t) : UniqueVersions(t[p])

\* A publish of a version the entry file already holds, with other metadata,
\* was rejected.
C1_Witness ==
    \E c \in Clients :
        /\ pc[c] = "done"
        /\ req[c].ok
        /\ result[c].err = ConflictError
        /\ EntryPath(req[c].name) \in DOMAIN work
        /\ \E i \in 1..Len(work[EntryPath(req[c].name)]) :
             LET e == work[EntryPath(req[c].name)][i].rec IN
             SameVersion(e, req[c].name, req[c].vers) /\ e.meta # req[c].meta

Quiescent == \A c \in Clients : Idle(c)

\* The places of the records of (name, version) in a tree.
PlacesOf(tree, nv) ==
    {pl \in UNION {{<<p, i>> : i \in 1..Len(tree[p])} : p \in EntryPathsOf(tree)} :
        SameVersion(tree[pl[1]][pl[2]].rec, nv[1], nv[2])}

CrateMatches(e) ==
    /\ CrateFilePath(e.name, e.vers) \in DOMAIN crateFiles
    /\ Sha256(crateFiles[CrateFilePath(e.name, e.vers)]) = e.cksum

IndexMatchesPublishes(tree) ==
    /\ \A k \in 1..Len(okLog) : Cardinality(PlacesOf(tree, okLog[k])) = 1
    /\ \A p \in EntryPathsOf(tree) : \A i \in 1..Len(tree[p]) :
         /\ \E k \in 1..Len(okLog) :
              SameVersion(tree[p][i].rec, okLog[k][1], okLog[k][2])
         /\ CrateMatches(tree[p][i].rec)

C3_OneWinner ==
    \A c, d \in Clients :
        (c # d /\ pc[c] = "done" /\ pc[d] = "done" /\ req[c].ok /\ req[c] = req[d]) =>
            /\ ~(result[c].ok /\ result[d].ok)
            /\ ~result[c].ok => result[c].err = ConflictError
            /\ Cardinality(PlacesOf(work, <<req[c].name, req[c].vers>>)) = 1

CommittedEntriesHaveCrate ==
    \A i \in 1..Len(commits) :
        \A p \in EntryPathsOf(commits[i].tree) :
            \A k \in 1..Len(commits[i].tree[p]) :
                LET e == commits[i].tree[p][k].rec IN
                CrateFilePath(e.name, e.vers) \in DOMAIN crateFiles

WritesAfterBuffer ==
    \A c \in Clients :
        (pc'[c] # pc[c] /\ <<crateFiles, work, staged, commits>>'
                             # <<crateFiles, work, staged, commits>>)
            => buffered[c]

\* C4: a request's step writes (a crate file, an entry file, the staging
\* area, a commit) only once its whole body is buffered, and every entry of
\* every commit has its crate file on disk.
C4_BufferedThenCrateThenCommit ==
    []CommittedEntriesHaveCrate /\ [][WritesAfterBuffer]_vars

\* An entry is committed while another request's body is still arriving.
C4_Witness ==
    /\ Len(commits) >= 3
    /\ \E c \in Clients : pc[c] = "sending" /\ ~buffered[c]

\* C5: at most one add_and_commit is between taking the lock and returning;
\* a call about to return Ok has moved HEAD by one commit, onto the HEAD it
\* found; the commits are one chain, HEAD its tip.
C5_SerialisedLinearHistory ==
    /\ Cardinality({p \in Procs : InCritical(p)}) <= 1
    /\ \A p \in Procs : InCritical(p) => lock = Some(p)
    /\ \A p \in Procs : pc[p] = "ac_usi" =>
         head = frame[p].parent + 1 /\ commits[head].parent = frame[p].parent
    /\ head = Len(commits)
    /\ \A i \in 1..Len(commits) : commits[i].parent = i - 1

\* One call has committed and still holds the lock; another waits for it.
C5_Witness ==
    \E c, d \in Clients : pc[c] = "ac_usi" /\ pc[d] = "ac_lock" /\ head = 3

Clean == work = staged /\ head >= 1 /\ staged = commits[head].tree

\* C6: once Index::new has returned Ok, HEAD resolves to a commit and the
\* working tree has no untracked and no modified file.
C6_CleanAfterNew == pc[Main] = "ready" => head >= 1 /\ Clean

\* C7: once Index::new(root, addr) has returned Ok, config.json holds the dl
\* and api of addr; when ensure_config found a config.json that did not,
\* exactly one commit was added since, "Update config.json", with the
\* rewritten file in its tree.
C7_ConfigCanonical ==
    pc[Main] = "ready" =>
        /\ ConfigPath \in DOMAIN work
        /\ work[ConfigPath].ok
        /\ work[ConfigPath].dl
             = <<"http://", addr, "/api/v1/crates/{crate}/{version}/download">>
        /\ work[ConfigPath].api = << <<"http://", addr>> >>
        /\ ecNote.found = "mismatch" =>
             /\ Len(commits) = ecNote.before + 1
             /\ head = Len(commits)
             /\ commits[head].msg = <<"Update config.json">>
             /\ commits[head].tree[ConfigPath] = work[ConfigPath]

\* Index::new rewrote a config.json that did not match.
C7_Witness == pc[Main] = "ready" /\ ecNote.found = "mismatch"

\* C8: a publish that failed is answered with status 200 and the JSON error
\* body of its error chain.
C8_ErrorsAsJson200 ==
    \A c \in Clients :
        (pc[c] = "done" /\ ~result[c].ok) =>
            /\ resp[c].status = 200
            /\ resp[c].body = RegistryErrorsJson(result[c].err)

\* "/crates/<shard>/<name>-<version>.crate", the shard by the length of the
\* lowercased name.
ExpectedLocation(name, vers) ==
    LET l == [i \in 1..Len(name) |-> LowerChar(name[i])]
        shard == IF Len(name) = 1 THEN <<"1">>
                 ELSE IF Len(name) = 2 THEN <<"2">>
                 ELSE IF Len(name) = 3 THEN <<"3", "/", l[1]>>
                 ELSE <<l[1], l[2], "/", l[3], l[4]>>
    IN  <<"/", "crates", "/">> \o shard \o <<"/">> \o name \o <<"-">> \o vers
            \o <<".crate">>

LocationIsSharded ==
    /\ routed.location = ExpectedLocation(probe.name, probe.vers)
    /\ (probe.name = Serde /\ probe.vers = <<"1.0.0">>) =>
         routed.location = <<"/", "crates", "/", "s", "e", "/", "r", "d", "/",
                             "s", "e", "r", "d", "e", "-", "1.0.0", ".crate">>

C10_PublishedCrateIsServed ==
    \A c \in Clients :
        /\ PublishOk(c) => resp[c].status = 200 /\ resp[c].body = <<>>
        /\ pc[c] = "redirected" =>
             resp[c].status \in 300..399 /\ resp[c].location # <<>>
        /\ pc[c] = "fetched" => resp[c].status = 200 /\ resp[c].body = req[c].data

\* foo 0.1.0 was published with the bytes "hello" and fetched back.
C10_Witness ==
    \E c \in Clients :
        /\ pc[c] = "fetched"
        /\ req[c].name = Foo
        /\ resp[c].body = <<"hello">>

RefreshUnderLock ==
    /\ \A p \in Procs : pc[p] = "ac_usi" => lock = Some(p) /\ head = Len(commits)
    /\ (lock = None /\ lastRet = "ok") => serverInfo = head

RefreshFollowsCommit ==
    /\ serverInfo' # serverInfo =>
         /\ \E p \in Procs : pc[p] = "ac_usi" /\ lock = Some(p)
         /\ serverInfo' = head /\ head' = head
    /\ head' # head => \E p \in Procs : pc'[p] = "ac_usi" /\ lock' = Some(p)

\* C11: add_and_commit refreshes the server info after its commit and while
\* it still holds the lock; a commit is followed by the refresh step of the
\* same call; whenever the lock is free and the last add_and_commit returned
\* Ok, the server info is that of HEAD.
C11_RefreshAfterCommit == []RefreshUnderLock /\ [][RefreshFollowsCommit]_vars

\* Commits were made, the last call returned Ok, the lock is free.
C11_Witness ==
    lock = None /\ lastRet = "ok" /\ head >= 4 /\ serverInfo = head

LockOnlyWhileRunning ==
    /\ lock # None => \E p \in Procs : InCritical(p) /\ lock = Some(p)
    /\ pending \subseteq DOMAIN staged

NoRollback ==
    lastRet' = "err" /\ (\E p \in Procs : InCritical(p) /\ ~InCritical(p)') =>
        /\ lock' = None
        /\ <<work, commits, head>>' = <<work, commits, head>>
        /\ DOMAIN staged \subseteq DOMAIN staged'
        /\ \A p \in Procs : (InCritical(p) /\ ~InCritical(p)') =>
             StagedPrefix(frame[p].files) \subseteq DOMAIN staged'

CommitTakesPending ==
    Len(commits') > Len(commits) =>
        pending \subseteq DOMAIN commits'[Len(commits')].tree

\* C12: an add_and_commit that fails, at whatever step, leaves the lock free,
\* leaves the working tree, the commits and HEAD as they were at that step and
\* takes nothing out of the staging area; the paths it staged are in the tree
\* of every commit made afterwards.
C12_FailureKeepsStaged ==
    []LockOnlyWhileRunning /\ [][NoRollback /\ CommitTakesPending]_vars

\* After a call failed with a path staged, another call, not given that path,
\* has taken the lock and committed a tree that holds the path.
C12_Witness ==
    \E p \in Clients :
        /\ pc[p] = "ac_usi"
        /\ lastRet = "err"
        /\ \E path \in pending :
             /\ path \notin Range(frame[p].files)
             /\ path \in DOMAIN commits[head].tree
             /\ \A i \in 1..(head - 1) : path \notin DOMAIN commits[i].tree

\* C13: the bridge is never stuck writing the request body to a full stdin
\* pipe while the child is stuck writing to a full stdout pipe: the child's
\* output is read while body chunks remain, so the request goes on.
C13_PipesServedTogether ==
    ~ /\ cgi.pc = "write" /\ cgi.bodyLeft > 0 /\ child.stdin = PipeCap
      /\ child.pc = "run" /\ child.prog # <<>>
      /\ Head(child.prog)[1] = "write" /\ Len(child.stdout) = PipeCap

\* "Key: Value\r\n" as the child wrote it: its key and its value.
KeyOf(line) == <<line[1]>>
ValueOf(line) == SubSeq(line, 3, Len(line) - 2)

\* C14: once the response is on its way, every header line of the child's
\* block is a header of it, except the Status line, whose first three bytes
\* are its status.
C14_HeadersAndStatus ==
    cgi.pc \in {"streaming", "done"} =>
        \A i \in 1..Len(child.block) :
            LET line == child.block[i] IN
            IF KeyOf(line) = <<"Status">>
            THEN cgi.served.status = SubSeq(ValueOf(line), 1, 3)
            ELSE <<KeyOf(line), ValueOf(line)>> \in cgi.served.headers

ExpectedEnvNames(r) ==
    {"GIT_PROJECT_ROOT", "PATH_INFO", "REQUEST_METHOD", "QUERY_STRING",
     "REMOTE_USER", "REMOTE_ADDR", "GIT_HTTP_EXPORT_ALL"}
        \cup (IF r.ctype = None THEN {} ELSE {"CONTENT_TYPE"})

\* C15: the child's environment has exactly the CGI variables, with the
\* values taken from the request, CONTENT_TYPE only when the request has
\* one, and no variable of the server's environment.
C15_ScrubbedEnvironment ==
    cgi.pc # "none" =>
        LET e == cgi.env
            r == cgi.req IN
        /\ DOMAIN e = ExpectedEnvNames(r)
        /\ DOMAIN e \cap {"PATH", "HOME", "SECRET"} = {}
        /\ e["GIT_PROJECT_ROOT"] = <<"<root>", "/", "index">>
        /\ e["PATH_INFO"] = <<"/">> \o r.tail
        /\ e["REQUEST_METHOD"] = <<r.method>>
        /\ e["QUERY_STRING"] = r.query
        /\ e["REMOTE_USER"] = <<>>
        /\ e["REMOTE_ADDR"] = IF r.remote = None THEN <<"127.0.0.1">>
                              ELSE <<r.remote[1].ip>>
        /\ e["GIT_HTTP_EXPORT_ALL"] = <<"true">>
        /\ r.ctype # None => e["CONTENT_TYPE"] = r.ctype

\* A request without Content-Type and without a known peer was bridged.
C15_Witness ==
    cgi.pc = "done" /\ cgi.req.ctype = None /\ cgi.req.remote = None

GitLeavesLock == (cgi' # cgi \/ child' # child) => lock' = lock

LockHeldByCommitter ==
    lock # None => \E p \in Procs : InCritical(p) /\ lock = Some(p)

\* C16: no step of the bridge or of its child takes or releases the index
\* lock; the lock is only ever held by a task inside add_and_commit.
C16_GitNeverLocks == []LockHeldByCommitter /\ [][GitLeavesLock]_vars

\* A git request was spawned and has run to its end while one add_and_commit,
\* the first to run, held the lock all along.
C16_Witness ==
    /\ cgi.pc = "done"
    /\ Len(commits) = 2 /\ lastRet = "ok" /\ pending = {}
    /\ \E d \in Clients :
         pc[d] = "ac_stage" /\ lock = Some(d) /\ cgi.lockAtSpawn = Some(d)

BatchReturned(kind) ==
    sync.pc = "returned" /\ sync.kind = kind
        /\ sync.ret.kind \in {"Ok", "FailedDownloads"}

\* C17: when a channel sync returns its result, one task per file of the
\* download list was started and has run to its end, whatever the tasks
\* before it ended with; no result is decided while a task is queued or runs.
C17_SiblingsRunToCompletion ==
    BatchReturned("channel") =>
        /\ Len(sync.tasks) = Len(sync.files)
        /\ Len(sync.results) = Len(sync.files)
        /\ \A i \in 1..Len(sync.tasks) : sync.tasks[i].state = "done"

\* With one worker, the first download failed and the second one was still
\* started afterwards and succeeded; the sync then failed with count 1.
C17_Witness ==
    /\ BatchReturned("channel")
    /\ sync.threads = 1
    /\ sync.results = <<"Transport", "Ok">>
    /\ sync.ret = [kind |-> "FailedDownloads", count |-> 1]

RealFailures(tasks) ==
    Cardinality({i \in 1..Len(tasks) : tasks[i].out \notin {"Ok", "NotFound"}})

SyncSucceeded == BatchReturned("channel") /\ sync.ret.kind = "Ok"

ListedPaths == {sync.files[i].url : i \in 1..Len(sync.files)}

ManifestPaths(channel) ==
    IF Head(channel) = "nightly-"
    THEN { <<"dist", "/", channel[2], "/", "channel-rust-nightly.toml">>,
           <<"dist", "/", channel[2], "/", "channel-rust-nightly.toml", ".sha256">> }
    ELSE { <<"dist", "/", "channel-rust-", channel[1], ".toml">>,
           <<"dist", "/", "channel-rust-", channel[1], ".toml", ".sha256">> }

HistoryEntryIs(paths) ==
    /\ sync.channel \in DOMAIN sync.history
    /\ sync.date \in DOMAIN sync.history[sync.channel]
    /\ Range(sync.history[sync.channel][sync.date]) = paths

\* C19 as stated: after a successful channel sync the history of the channel
\* maps the manifest's date to the paths of the download list plus the
\* manifest TOML and its .sha256, whatever the channel.
C19_HistoryListsManifest ==
    SyncSucceeded => HistoryEntryIs(ListedPaths \cup ManifestPaths(sync.channel))

\* C19 as the code has it: the entry is the paths of the download list, and
\* the manifest TOML and its .sha256 only when the channel is nightly-<date>.
C19_HistoryListsDatedManifest ==
    SyncSucceeded =>
        HistoryEntryIs(ListedPaths \cup
                       (IF Head(sync.channel) = "nightly-"
                        THEN ManifestPaths(sync.channel) ELSE {}))

\* A sync of nightly-2024-01-15 whose manifest carries another date succeeded:
\* the entry is under the manifest's date and holds the file and both
\* manifest paths.
C19_Witness ==
    /\ SyncSucceeded
    /\ sync.channel = <<"nightly-", "2024-01-15">>
    /\ sync.date = <<"2024-02-01">>
    /\ Len(sync.history[sync.channel][sync.date]) = 3

HistoryPaths(channel) ==
    UNION {Range(sync.history[channel][d]) : d \in DOMAIN sync.history[channel]}

\* C20: after a successful channel sync every path the channel's history
\* lists is a file on disk under the mirror root or one of the retained
\* extra files, also when targets answered NotFound.
C20_HistoryPathsExist ==
    SyncSucceeded =>
        \A p \in HistoryPaths(sync.channel) :
            p \in sync.disk \/ p \in Range(sync.extra)

InFlight == {i \in 1..Len(sync.tasks) : sync.tasks[i].state = "running"}

\* C21: at every moment of a channel sync and of a rustup-init sync, the tasks
\* that were spawned and are not yet joined number at most `threads`.
C21_AtMostThreadsInFlight == Cardinality(InFlight) <= sync.threads

\* A rustup-init sync with one worker and two unix platforms: the first task
\* is in flight and the second one of the same batch waits for it.
C21_Witness ==
    /\ sync.kind = "init" /\ sync.threads = 1
    /\ Len(sync.tasks) = 3
    /\ sync.tasks[1].state = "running"
    /\ sync.tasks[2].state = "queued" /\ sync.tasks[2].batch = sync.tasks[1].batch

Returned(ret) == down.pc = "returned" /\ down.ret = ret

FailedFirst(k) ==
    /\ Len(down.answers) > k
    /\ \A i \in 1..k : down.answers[i] = "transport"

\* C22: a download whose target answers 404 returns NotFound after that one
\* GET, whatever retries is; a download whose first k < retries GETs fail in
\* transport and whose next GET delivers the file returns Ok.
C22_NotFoundOnceAndRetryUntilGood ==
    /\ \A i \in 1..Len(down.answers) :
          down.answers[i] = "404" =>
              i = Len(down.answers) /\ Returned("NotFound")
    /\ \A k \in 0..MaxRetries :
          (k < down.retries /\ FailedFirst(k) /\ down.answers[k + 1] = "good")
              => Returned("Ok")

\* With retries 2 the first GET failed in transport and the second one
\* delivered the file: the download returned Ok after two attempts.
C22_Witness ==
    /\ down.retries = 2
    /\ down.answers = <<"transport", "good">>
    /\ Returned("Ok")

\* C23: with an expected SHA-256, dest holds a file only if that file has the
\* expected hash, and a download whose bytes do not match returns
\* ChecksumMismatch with no file at dest.
C23_DestOnlyAfterVerify ==
    down.expected # None =>
        /\ down.dest # None => HashOf(down.dest[1]) = down.expected[1]
        /\ (down.pc = "returned" /\ down.answers # <<>>
              /\ down.answers[Len(down.answers)] = "bad")
             => Returned("ChecksumMismatch") /\ down.dest = None

\* A download with an expected hash received other bytes after one failed
\* transfer: ChecksumMismatch, nothing at dest.
C23_Witness ==
    /\ down.expected # None
    /\ down.answers = <<"transport", "bad">>
    /\ Returned("ChecksumMismatch") /\ down.dest = None

(* C24: unpack writes every file of the archive over what the root holds,
   leaves every file of the root that the archive does not hold as it was,
   and unpacking the same archive again changes nothing. *)
UnpackRan ==
    /\ pack.unpacks > 0
    /\ pack.last # None
    /\ pack.via = "cli" \/ pack.ctype = Some("application/x-tar")

EntryPaths(entries) == {entries[i].path : i \in 1..Len(entries)}

LastContent(entries, path) ==
    LET last == CHOOSE i \in 1..Len(entries) :
                   /\ entries[i].path = path
                   /\ \A j \in (i + 1)..Len(entries) : entries[j].path # path
    IN entries[last].content

C24_UnpackOverwritesAndIsIdempotent ==
    (UnpackRan /\ pack.ok) =>
        LET entries == pack.last[1] IN
        /\ DOMAIN pack.root = DOMAIN pack.before \cup EntryPaths(entries)
        /\ \A path \in EntryPaths(entries) :
               pack.root[path] = LastContent(entries, path)
        /\ \A path \in DOMAIN pack.before \ EntryPaths(entries) :
               pack.root[path] = pack.before[path]
        /\ pack.prev = pack.last => pack.root = pack.before
        /\ ArchiveUnpack(entries, pack.root).tree = pack.root

C24_Witness ==
    /\ UnpackRan /\ pack.ok
    /\ \E path \in DOMAIN pack.before \cap EntryPaths(pack.last[1]) :
           pack.root[path] # pack.before[path]
    /\ DOMAIN pack.before \ EntryPaths(pack.last[1]) # {}

(* C25: the tree that unpacking a pack's archive gives holds no history file
   and no .part file, and every file the syncs mirrored is in it with the
   bytes upstream served. *)
UnpackedPack ==
    /\ UnpackRan /\ pack.ok
    /\ pack.pc = "packed"
    /\ pack.last = pack.archive

IsHistoryFile(path) ==
    path[1] = "mirror-" /\ path[Len(path)] = "history.toml"

IsPartFile(path) == \E i \in 1..Len(path) : path[i] = ".part"

C25_RoundTripDropsHistoryAndPart ==
    UnpackedPack =>
        /\ \A path \in DOMAIN pack.root :
               ~IsHistoryFile(path) /\ ~IsPartFile(path)
        /\ \A path \in sync.disk :
               ~IsPartFile(path) =>
                   path \in DOMAIN pack.root /\ pack.root[path] = Mirrored(path)

(* C26: when pack_args.platforms names a triple that the platform list got
   from upstream does not hold, pack returns an error, no rustup-init sync
   and no channel sync has started, and no archive is written. *)
NamesUnknownPlatform ==
    /\ pack.pc # "none" /\ pack.listed
    /\ \E i \in 1..Len(pack.args.platforms) :
           pack.args.platforms[i] \notin Range(PlatformsIntoIterator(pack.all))

C26_UnknownPlatformFailsBeforeSync ==
    NamesUnknownPlatform =>
        /\ pack.pc = "failed" /\ pack.ret = "Err"
        /\ sync = NoSync
        /\ pack.archive = None

C26_Witness ==
    /\ NamesUnknownPlatform
    /\ pack.pc = "failed"
    /\ \E i \in 1..Len(pack.args.platforms) :
           pack.args.platforms[i] \in Range(PlatformsIntoIterator(pack.all))

(* C27: /api/versions answers with one channel id for every history file of
   the root: nightly-<date> for mirror-nightly-<date>-history.toml and
   <channel> for every other mirror-<channel>-history.toml, the undated
   stable and nightly included. *)
ChannelId(channel) ==
    IF Head(channel) = "nightly-" THEN <<"nightly", "-">> \o Tail(channel)
    ELSE channel

AskedVersions == eval.pc = "done" /\ eval.call = "versions"

C27_OneChannelIdPerHistoryFile ==
    AskedVersions =>
        /\ eval.out.ok
        /\ eval.resp.status = 200
        /\ eval.out.val = {ChannelId(c) : c \in eval.channels}
        /\ Cardinality(eval.out.val) = Cardinality(eval.files)

(* C28: the download list holds exactly one (relative path, hash) pair for
   every target that has download urls, whose package is not rustc-dev and
   whose triple is one of the selected platforms or "*", and no other pair. *)
AskedList == eval.pc = "done" /\ eval.call = "download_list"

Contributes(manifest, selected) ==
    {q \in (1..Len(manifest.pkg)) \X (1..Len(GenTargets)) :
        /\ q[2] <= Len(manifest.pkg[q[1]].target)
        /\ manifest.pkg[q[1]].name # "rustc-dev"
        /\ manifest.pkg[q[1]].target[q[2]].urls # None
        /\ \/ manifest.pkg[q[1]].target[q[2]].name
                  \in Range(selected.unix) \cup Range(selected.windows)
           \/ manifest.pkg[q[1]].target[q[2]].name = "*"}

\* The url after scheme, host and the slash that follows them.
PairOf(target) ==
    [url |-> SubSeq(target.urls[1].xz_url, Len(Source) + 2,
                    Len(target.urls[1].xz_url)),
     hash |-> target.urls[1].xz_hash]

C28_DownloadListIsTheSelectedTargets ==
    AskedList =>
        LET files == eval.out.files
            from == Contributes(eval.manifest, eval.selected) IN
        /\ Len(files) = Cardinality(from)
        /\ \A q \in from :
               Cardinality({k \in 1..Len(files) :
                   files[k] = PairOf(eval.manifest.pkg[q[1]].target[q[2]])}) = 1

C28_Witness ==
    /\ AskedList
    /\ Len(eval.out.files) = 2
    /\ \E k \in 1..2 : eval.out.files[k].url = <<"dist", "/", GenDate, "/", "cargo-any.tar.xz">>
    /\ \E j \in 1..Len(eval.manifest.pkg[1].target) :
           /\ eval.manifest.pkg[1].target[j].name = Msvc
           /\ eval.manifest.pkg[1].target[j].urls # None
    /\ \E j \in 1..Len(eval.manifest.pkg[2].target) :
           /\ eval.manifest.pkg[2].target[j].name = Linux
           /\ eval.manifest.pkg[2].target[j].urls # None
    /\ eval.selected = [unix |-> <<Linux>>, windows |-> <<>>]

AskedPlatforms == eval.pc = "done" /\ eval.call = "platforms"

ManifestTriples(manifest) ==
    {t \in Range(TripleOrder) :
        \E i \in 1..Len(manifest.pkg) :
            \E j \in 1..Len(manifest.pkg[i].target) :
                manifest.pkg[i].target[j].name = t}

StrictlySorted(triples) ==
    \A i, j \in 1..Len(triples) : i < j => Rank(triples[i]) < Rank(triples[j])

(* C29 as stated: the platform list of a manifest is the sorted sequence of
   exactly the triples that occur as targets in the manifest, without "*":
   none that the manifest does not have, none twice. *)
C29_SortedTriplesOfManifest ==
    AskedPlatforms =>
        /\ StrictlySorted(eval.out)
        /\ Range(eval.out) = ManifestTriples(eval.manifest)

(* C29 amended: the platform list of a manifest is the sorted sequence of the
   manifest's triples that are not windows triples, without "*", followed by
   the fixed windows triples whether or not the manifest has them; no other
   triple is returned and none twice. *)
C29_SortedUnixThenFixedWindows ==
    AskedPlatforms =>
        LET n == Len(eval.out) - Len(PLATFORMS_WINDOWS)
            unix == SubSeq(eval.out, 1, n) IN
        /\ n >= 0
        /\ SubSeq(eval.out, n + 1, Len(eval.out)) = PLATFORMS_WINDOWS
        /\ StrictlySorted(unix)
        /\ Range(unix) = ManifestTriples(eval.manifest) \ Range(PLATFORMS_WINDOWS)
        /\ Cardinality(Range(eval.out)) = Len(eval.out)

C29_Witness ==
    /\ AskedPlatforms
    /\ ManifestTriples(eval.manifest) = {Linux, "aarch64-apple-darwin"}
    /\ \E i \in 1..Len(eval.manifest.pkg) :
           \E j \in 1..Len(eval.manifest.pkg[i].target) :
               eval.manifest.pkg[i].target[j].name = "*"
    /\ eval.out = <<"aarch64-apple-darwin", Linux>> \o PLATFORMS_WINDOWS

(* C30: PUT /api/load-pack-file unpacks the body into the registry root only
   when the Content-Type header is application/x-tar; with another content
   type or none the request fails and the root stays as it was. *)
PutAnswered == pack.unpacks > 0 /\ pack.via = "put"

C30_LoadsOnlyTarContentType ==
    PutAnswered =>
        /\ pack.ctype # Some("application/x-tar") =>
               pack.resp.status >= 400 /\ pack.root = pack.before
        /\ (pack.ctype = Some("application/x-tar") /\ pack.ok) =>
               /\ pack.resp.status = 200
               /\ \A path \in EntryPaths(pack.last[1]) :
                      /\ path \in DOMAIN pack.root
                      /\ pack.root[path] = LastContent(pack.last[1], path)

C30_Witness ==
    /\ PutAnswered
    /\ pack.ctype = None
    /\ DOMAIN pack.before # {}
    /\ pack.resp.status = 500

(* C31: encoding a set of records gives one line per record and decoding
   that text gives the same set; decoding a text gives every record of its
   lines once, however often a line repeats; decoding fails as a whole when
   a line is no JSON record. *)
Encoded == eval.pc = "done" /\ eval.call = "round_trip"

Decoded == eval.pc = "done" /\ eval.call = "decode"

LineFeeds(text) == Cardinality({i \in 1..Len(text) : text[i] = LF})

\* The line of the plan is no record: cut short, no JSON, or empty and not
\* the end of the text.
Malformed(plan, i) ==
    \/ plan[i].kind \in {"cut", "text"}
    \/ plan[i].kind = "blank" /\ i < Len(plan)

PlanRecords(plan) ==
    {plan[i].e : i \in {j \in 1..Len(plan) : plan[j].kind \in {"entry", "nolinks"}}}

NoRepetition(es) == \A i, j \in 1..Len(es) : es[i] = es[j] => i = j

C31_CodecRoundTripAndDecode ==
    /\ Encoded =>
           /\ eval.out # None
           /\ Range(eval.out[1]) = Range(eval.input)
           /\ NoRepetition(eval.out[1])
           /\ eval.input # <<>> => LineFeeds(eval.text) = Len(eval.input) - 1
    /\ Decoded =>
           IF \E i \in 1..Len(eval.input) : Malformed(eval.input, i)
           THEN eval.out = None
           ELSE /\ eval.out # None
                /\ Range(eval.out[1]) = PlanRecords(eval.input)
                /\ NoRepetition(eval.out[1])

C31_Witness ==
    /\ Decoded
    /\ Len(eval.input) = 3
    /\ eval.input[1] = eval.input[3]
    /\ eval.input[1].kind = "entry" /\ eval.input[2].kind = "entry"
    /\ eval.input[1].e.links # None /\ LF \in Range(eval.input[1].e.links[1])
    /\ eval.out # None /\ Len(eval.out[1]) = 2

(* C32: when Index::new is called again on a root it has initialised, with
   the same server address, no commit is added and config.json and HEAD are
   what they were. *)
OpenedAgain ==
    /\ pc[Main] = "ready"
    /\ ecNote.prev.opened
    /\ ecNote.prev.addr = addr

C32_ReopenIsIdempotent ==
    OpenedAgain =>
        /\ commits = ecNote.prev.commits
        /\ head = ecNote.prev.head
        /\ work[ConfigPath] = ecNote.prev.config

C32_Witness ==
    /\ OpenedAgain
    /\ ecNote.found = "match"
    /\ head >= 1

InitialCommits ==
    {i \in 1..Len(commits) :
        commits[i].msg = <<"Create new repository for cargo registry">>}

(* C33: Index::new on a root without commits comes to its end; the task never
   asks for the repository lock while it holds it; and once Index::new has
   returned Ok there is exactly one initial empty commit. *)
C33_NewCompletesWithoutDeadlock ==
    /\ [](pc[Main] = "ac_lock" => lock # Some(Main))
    /\ [](pc[Main] = "ready" =>
              /\ Cardinality(InitialCommits) = 1
              /\ commits[1].msg = <<"Create new repository for cargo registry">>
              /\ commits[1].tree = EmptyTree /\ commits[1].parent = 0)
    /\ (pc[Main] = "new_open") ~> (pc[Main] \in {"ready", "failed"})

C33_Witness ==
    /\ pc[Main] = "ready"
    /\ opens = 1
    /\ Len(commits) = 2
    /\ lock = None

\* This step is the return of p's add_and_commit.
ReturnsFrom(p) == InCritical(p) /\ pc'[p] \notin {"ac_lock", "ac_stage", "ac_commit", "ac_usi"}

\* The commit HEAD was when p's call took the lock.
HeadAtCall(p) == IF pc[p] = "ac_stage" THEN head ELSE frame[p].parent

(* C34 as stated: add_and_commit returns Ok exactly when it put a new commit
   on HEAD; when it returns an error HEAD is the commit it was before the
   call. *)
C34_ErrorLeavesHead ==
    [][\A p \in Clients :
          ReturnsFrom(p) => (frame'[p].err <=> head' = HeadAtCall(p))]_vars

(* C34 amended: add_and_commit returns Ok only when it put a new commit on
   HEAD and refreshed the server info; when it returns an error of staging,
   of writing the tree or of the commit, HEAD is the commit it was before the
   call; when it returns the error of update_server_info, its new commit is
   on HEAD. *)
C34_ErrorLeavesHeadUnlessRefreshFailed ==
    [][\A p \in Clients :
          ReturnsFrom(p) =>
              /\ ~frame'[p].err =>
                     /\ head' # HeadAtCall(p)
                     /\ commits'[head'].parent = HeadAtCall(p)
                     /\ serverInfo' = head'
              /\ (frame'[p].err /\ pc[p] \in {"ac_stage", "ac_commit"}) =>
                     head' = HeadAtCall(p) /\ commits' = commits
              /\ (frame'[p].err /\ pc[p] = "ac_usi") =>
                     /\ head' # HeadAtCall(p)
                     /\ commits'[head'].parent = HeadAtCall(p)]_vars

\* A call returned an error after its commit: the server info is behind HEAD.
C34_Witness ==
    /\ lastRet = "err"
    /\ lock = None
    /\ head >= 2
    /\ serverInfo # head

\* The channel sync returned an error.
ChannelSyncFailed ==
    /\ sync.pc = "returned" /\ sync.kind = "channel"
    /\ sync.ret.kind \in {"FailedDownloads", "Download", "Deserialize"}

(* C35: when a channel sync ends with FailedDownloads, or fails on the
   download or the parse of the manifest, the history file of the channel is
   neither created nor modified: from the call to the return every history
   file is what it was, and only the return of a sync without a counted error
   writes one. *)
C35_FailedSyncLeavesHistory ==
    /\ [](ChannelSyncFailed => sync.history = sync.before)
    /\ [](sync.pc = "tasks" => sync.history = sync.before)
    /\ [][sync'.history # sync.history =>
             /\ sync.pc = "tasks" /\ sync'.pc = "returned"
             /\ sync'.kind = "channel" /\ sync'.ret.kind = "Ok"]_vars

\* A sync of a channel that has a history file ended with FailedDownloads
\* after it fetched files of a date the history does not have.
C35_Witness ==
    /\ ChannelSyncFailed
    /\ sync.ret.kind = "FailedDownloads"
    /\ sync.channel \in DOMAIN sync.history
    /\ sync.date \notin DOMAIN sync.history[sync.channel]
    /\ \E i \in 1..Len(sync.tasks) : sync.tasks[i].out = "Ok"

\* The versions table of a channel's history file; none when there is no file.
VersionsOf(history, channel) ==
    IF channel \in DOMAIN history THEN history[channel] ELSE <<>>

\* The entry add_to_channel_history is called with: the files then the extra files.
EntryGiven == FileNames(sync.files) \o sync.extra

\* The channel sync returned after it wrote the history file.
HistoryWritten ==
    /\ sync.pc = "returned" /\ sync.kind = "channel" /\ sync.ret.kind = "Ok"

(* C36: add_to_channel_history changes only the entry of the given date: the
   entries of the other dates in the channel's history file stay as they
   were, the entry of the given date is the list given (an entry that was
   there is replaced, not merged), and the history files of the other
   channels stay as they were. *)
C36_HistoryChangesOneDate ==
    HistoryWritten =>
        LET old == VersionsOf(sync.before, sync.channel)
            new == VersionsOf(sync.history, sync.channel) IN
        /\ DOMAIN new = DOMAIN old \cup {sync.date}
        /\ \A d \in DOMAIN old \ {sync.date} : new[d] = old[d]
        /\ new[sync.date] = EntryGiven
        /\ DOMAIN sync.history = DOMAIN sync.before \cup {sync.channel}
        /\ \A c \in DOMAIN sync.before \ {sync.channel} :
               sync.history[c] = sync.before[c]

\* The entry of a date was replaced by a list that lacks a file of the old one.
C36_Witness ==
    /\ HistoryWritten
    /\ sync.channel \in DOMAIN sync.before
    /\ sync.date \in DOMAIN sync.before[sync.channel]
    /\ \E f \in Range(sync.before[sync.channel][sync.date]) :
           f \notin Range(sync.history[sync.channel][sync.date])

\* The entry of another date was kept when a new one was added.
C36_WitnessOtherDate ==
    /\ HistoryWritten
    /\ sync.channel \in DOMAIN sync.before
    /\ DOMAIN sync.before[sync.channel] \ {sync.date} # {}

\* The final paths of the channel manifests, and the bodies at them.
FinalPaths == {ChannelPathChunk(channel) : channel \in SyncChannels \cup {<<"1.70.0">>}}

FinalBodies(toml) == [p \in DOMAIN toml \cap FinalPaths |-> toml[p]]

\* The channel sync returned on the manifest: its download, its checksum or
\* its parse failed.
ManifestFailed ==
    /\ sync.pc = "returned" /\ sync.kind = "channel"
    /\ sync.ret.kind \in {"Download", "Deserialize"}

(* C37: a channel manifest reaches its final path only after it was
   downloaded, checked against its .sha256 and parsed: the body at a final
   path is a manifest that parses, a final path gets a body only in the step
   in which the download succeeded and the parse succeeded and the body is
   the one downloaded, and a sync whose download, check or parse failed
   leaves the body at every final path as it was. *)
C37_ManifestFinalOnlyAfterParse ==
    /\ [](\A p \in DOMAIN FinalBodies(sync.toml) : sync.toml[p] # Unparsable)
    /\ [](DOMAIN sync.toml \subseteq sync.disk)
    /\ [][FinalBodies(sync.toml') # FinalBodies(sync.toml) =>
             /\ sync'.pc = "tasks" /\ sync'.kind = "channel"
             /\ sync'.cause = "Ok"
             /\ sync'.toml[ChannelPathChunk(sync'.channel)] = sync'.date
             /\ \A p \in DOMAIN FinalBodies(sync.toml) \ {ChannelPathChunk(sync'.channel)} :
                    p \in DOMAIN sync'.toml /\ sync'.toml[p] = sync.toml[p]]_vars
    /\ [][(sync'.n # sync.n /\ sync'.kind = "channel" /\ sync'.pc = "returned")
             => FinalBodies(sync.toml') = FinalBodies(sync.toml)]_vars

\* The parse of a second download failed: the manifest of the first sync is
\* still at the final path, and the body that does not parse is at .part.
C37_Witness ==
    /\ ManifestFailed
    /\ sync.ret.kind = "Deserialize"
    /\ ChannelPathChunk(sync.channel) \in DOMAIN sync.toml
    /\ channel_part_path(ChannelPathChunk(sync.channel)) \in DOMAIN sync.toml
    /\ sync.toml[channel_part_path(ChannelPathChunk(sync.channel))] = Unparsable

\* The checksum of a second download did not match: the manifest of the first
\* sync is still at the final path.
C37_WitnessChecksum ==
    /\ ManifestFailed
    /\ sync.cause = "ChecksumMismatch"
    /\ ChannelPathChunk(sync.channel) \in DOMAIN sync.toml

\* pack returned.
PackReturned == pack.pc \in {"packed", "failed"}

\* The last sync of the run was for a pinned version and its manifest was
\* NotFound.
ManifestNotFound ==
    /\ pack.args.versions # <<>>
    /\ sync.kind = "channel" /\ sync.pc = "returned"
    /\ sync.ret.kind = "Download" /\ sync.cause = "NotFound"

\* Every sync of the run was made and the last one returned.
AllSyncsMade == sync.n = Len(pack.todo) /\ sync.pc = "returned"

(* C38 as stated: pack returns an error, with no archive written, only when
   the platforms could not be resolved or the manifest of a pinned version was
   NotFound; in every other run all the syncs are made, whatever they return,
   the archive is written and pack returns Ok. *)
C38_PackFailsOnlyOnPlatformsOrNotFound ==
    PackReturned =>
        IF pack.why = "Platforms" THEN pack.pc = "failed" /\ sync = NoSync
        ELSE IF ManifestNotFound THEN pack.pc = "failed" /\ pack.why = "NotFound"
        ELSE /\ pack.pc = "packed" /\ pack.ret = "Ok"
             /\ AllSyncsMade
             /\ pack.archive = Some(AppendDirAll(ScratchTree))

(* C38 amended: pack returns an error, with no archive written, only when
   the platforms could not be resolved, the manifest of a pinned version was
   NotFound, or the scratch directory or the pack file could not be created;
   in every other run all the syncs are made, whatever they return, and then
   pack writes the archive and returns Ok unless writing it fails. *)
C38_PackFailsOnlyBeforeOrAtTheArchive ==
    PackReturned =>
        /\ pack.pc = "failed" <=> pack.ret = "Err"
        /\ (pack.pc = "failed" /\ ~pack.created) =>
               pack.why \in {"TempDir", "Platforms", "NotFound", "Create"}
        /\ pack.why \in {"TempDir", "Platforms"} => sync = NoSync
        /\ pack.why = "NotFound" <=> ManifestNotFound
        /\ pack.why \notin {"TempDir", "Platforms", "NotFound"} =>
               /\ AllSyncsMade
               /\ pack.why \in {"none", "Create", "Append"}
               /\ pack.why = "none" <=> pack.pc = "packed"
        /\ pack.pc = "packed" =>
               /\ pack.ret = "Ok" /\ pack.created
               /\ pack.archive = Some(AppendDirAll(ScratchTree))
        /\ pack.pc = "failed" => pack.archive = None
        /\ pack.created <=> (pack.pc = "packed" \/ pack.why = "Append")

\* The release file of rustup-init could not be fetched and the downloads of
\* the last channel failed: the archive was written and pack returned Ok.
C38_Witness ==
    /\ pack.pc = "packed" /\ pack.ret = "Ok"
    /\ <<"rustup", "/", "release-stable.toml">> \notin sync.disk
    /\ sync.ret.kind = "FailedDownloads"
    /\ pack.archive # None /\ Len(pack.archive[1]) >= 2

\* The stable sync of a run for the latest versions failed on its manifest
\* and the nightly sync was made all the same.
C38_WitnessContinues ==
    /\ pack.pc = "packed" /\ pack.args.versions = <<>>
    /\ ChannelPathChunk(<<"stable">>) \notin sync.disk
    /\ sync.channel = <<"nightly">> /\ sync.ret.kind = "Ok"

\* The pack file could not be created after every sync succeeded.
C38_WitnessCreate ==
    /\ pack.pc = "failed" /\ pack.why = "Create"
    /\ sync.ret.kind = "Ok"

\* A channel sync is at its download tasks.
ChannelTasksRun == sync.pc = "tasks" /\ sync.kind = "channel"

ChannelReturned == sync.pc = "returned" /\ sync.kind = "channel"

\* The progress bar only goes up while the tasks run, and shows every task
\* when the sync returns from them.
ProgressCounts ==
    /\ [][(ChannelTasksRun /\ sync'.n = sync.n) => sync'.pb >= sync.pb]_vars
    /\ [][(ChannelTasksRun /\ sync'.pc = "returned") =>
              sync'.pb = Len(sync'.files)]_vars

(* C39: a channel sync that reached its download tasks returns, whatever the
   download list and the value of threads, when every download ends; the
   progress counter only increases and ends at the number of tasks. *)
C39_ChannelSyncReturns ==
    /\ ChannelTasksRun ~> ChannelReturned
    /\ ProgressCounts

\* With one worker or more the sync returns and the counter ends at the
\* number of tasks.
C39_ReturnsWithWorkers ==
    /\ (ChannelTasksRun /\ sync.threads >= 1) ~> ChannelReturned
    /\ ProgressCounts

\* With no worker the sync stays at its tasks for ever.
C39_StuckWithoutWorkers ==
    [][(ChannelTasksRun /\ sync.threads = 0) =>
           (sync'.pc = "tasks" /\ sync'.pb = 0)]_vars

\* A sync with threads = 0 waits on a download list of two files.
C39_Witness ==
    /\ ChannelTasksRun
    /\ sync.threads = 0
    /\ Len(sync.tasks) = 2

====
